---- MODULE Spec2Model ----
(***************************************************************************)
(* Verification model of the deepseek-platform execution core.             *)
(*                                                                         *)
(*   ParseSpec : src/src/conversation/parse_assistant_message.py, the      *)
(*               message parser, one action per branch of its outer scan,  *)
(*               re-run from the start on every growth of the buffer.      *)
(*   ToolSpec  : src/src/tools/tool_manager.py, the tool registry, with    *)
(*               the module-level EXTENDED_TOOLS table shared by every     *)
(*               ToolManager instance of the process.                      *)
(*   MainSpec  : src/src/main.py, the orchestrator loop that dispatches    *)
(*               the tool uses of a response.                              *)
(*   SessionSpec : src/src/file_ops/terminal_manager.py, one               *)
(*               TerminalProcess with its subprocess, reader thread, hot   *)
(*               timer, event handlers and a caller of                     *)
(*               get_unretrieved_output; SessionFairSpec is the same with  *)
(*               weak fairness of its steps.                               *)
(*   ManagerSpec : the TerminalManager of the same file, its id counter    *)
(*               and the subprocesses it starts and terminates.            *)
(*   DiffSpec  : src/src/file_ops/diff_view_provider.py, one               *)
(*               DiffViewProvider and the files below its cwd.             *)
(*                                                                         *)
(* Strings are sequences of one-character strings; indices into them are   *)
(* 0-based as in the source (Slice, SliceFrom, Find, FindIn).              *)
(***************************************************************************)
EXTENDS Integers, Sequences, FiniteSets, TLC

VARIABLES
    assistant_message,  \* parser: the buffer handed to parse_assistant_message
    i,                  \* parser: scan cursor of the outer while loop
    content_blocks,     \* parser: blocks appended so far / returned
    pc,                 \* parser: "scan" inside the loop, "done" once returned
    chunks,             \* parser: number of pieces the producer has appended
    tools,              \* registry: per ToolManager instance, self.tools
    tool_versions,      \* registry: per ToolManager instance, self.tool_versions
    EXTENDED_TOOLS,     \* registry: the module-level table of extended_tools.py
    heap,               \* registry: the ExtendedTool objects, by reference
    now,                \* registry: the clock datetime.now() reads
    last,               \* registry: the last call and the error it raised
    chain,              \* registry: the add/update run in progress and the
                        \*           counts read before its add_tool
    main_pc,            \* main(): where the orchestrator loop stands
    tool_uses,          \* main(): response_data.tool_uses of this turn
    use_index,          \* main(): position of the for loop in tool_uses
    turns,              \* main(): number of inputs read so far
    console,            \* main(): the last panel or message printed
    process,            \* session: self._process, "None" before run
    stdout,             \* session: chunks written by the subprocess, unread
    written,            \* session: number of lines the subprocess has written
    output_buffer,      \* session: self._output_buffer
    buffer,             \* session: self._buffer
    last_retrieved_index, \* session: self._last_retrieved_index
    is_hot,             \* session: self._is_hot
    hot_timer,          \* session: self._hot_timer
    scheduled,          \* session: the handles pending on the event loop
    lock,               \* session: the thread holding self._lock, or "free"
    reader_pc,          \* session: where the reader thread stands
    data,               \* session: the chunk the reader is processing
    nread,              \* session: number of chunks the reader has taken
    events,             \* session: the events emitted to the handlers
    caller_pc,          \* session: where get_unretrieved_output stands
    unretrieved,        \* session: the local of get_unretrieved_output
    drained,            \* session: the slices taken and the values returned
    stderr,             \* session: chunks in the stderr pipe of the subprocess
    terminals,          \* manager: self._terminals
    processes,          \* manager: self._processes
    next_id,            \* manager: self._next_id
    subprocs,           \* manager: the subprocesses spawned, by session id
    issued,             \* manager: the ids handed out, in order
    disposed,           \* manager: the ids removed or disposed so far
    fs,                 \* diff: the directories and files below cwd
    provider,           \* diff: the fields of the DiffViewProvider
    returned,           \* diff: what the last call returned, raised, printed
    diff_session        \* diff: the calls since the last open

parse_vars == <<assistant_message, i, content_blocks, pc, chunks>>

tool_vars == <<tools, tool_versions, EXTENDED_TOOLS, heap, now, last, chain>>

main_vars == <<main_pc, tool_uses, use_index, turns, console>>

session_vars ==
    <<process, stdout, written, output_buffer, buffer, last_retrieved_index,
      is_hot, hot_timer, scheduled, lock, reader_pc, data, nread, events,
      caller_pc, unretrieved, drained, stderr>>

manager_vars == <<terminals, processes, next_id, subprocs, issued, disposed>>

diff_vars == <<fs, provider, returned, diff_session>>

vars == <<parse_vars, tool_vars, main_vars, session_vars, manager_vars, diff_vars>>

----------------------------------------------------------------------------
(* Bounds *)

MaxChunks == 3

\* inputs read by main() and tool uses in one response
MaxTurns == 2

MaxUses == 2

\* lines written by a subprocess and calls of get_unretrieved_output
MaxLines == 2

MaxDrains == 2

\* chunks the stderr pipe of a subprocess holds before a write to it blocks
PipeCapacity == 1

\* session ids handed out by one TerminalManager
MaxIds == 2

MaxOps == 2

\* sessions opened on one DiffViewProvider and update calls in one session
MaxOpens == 1

MaxUpdates == 3

----------------------------------------------------------------------------
(* Python string primitives *)

Min(S) == CHOOSE x \in S : \A y \in S : x <= y

Max(S) == CHOOSE x \in S : \A y \in S : x >= y

\* the whitespace str.strip() removes (the members that occur in the model)
Whitespace == {" ", "\n", "\t", "\r"}

\* t.startswith(s)
IsPrefix(s, t) == Len(s) <= Len(t) /\ SubSeq(t, 1, Len(s)) = s

\* s[lo:hi]
Slice(s, lo, hi) == SubSeq(s, lo + 1, hi)

\* s[lo:]
SliceFrom(s, lo) == SubSeq(s, lo + 1, Len(s))

\* s.find(sub, start, end): the lowest index k >= start at which sub occurs
\* with k + len(sub) <= end, or -1
FindIn(s, sub, start, end) ==
    LET hits == {k \in start..(end - Len(sub)) :
                    SubSeq(s, k + 1, k + Len(sub)) = sub}
    IN  IF hits = {} THEN -1 ELSE Min(hits)

\* s.find(sub, start)
Find(s, sub, start) == FindIn(s, sub, start, Len(s))

\* s.strip()
Strip(s) ==
    LET keep == {k \in 1..Len(s) : s[k] \notin Whitespace}
    IN  IF keep = {} THEN <<>> ELSE SubSeq(s, Min(keep), Max(keep))

\* s.endswith('.')
EndsWithPeriod(s) == Len(s) > 0 /\ s[Len(s)] = "."

\* f"</{name}>"
CloseTag(name) == <<"<", "/">> \o name \o <<">">>

----------------------------------------------------------------------------
(* Python dict, insertion-ordered: a sequence of <<key, value>> pairs with  *)
(* pairwise distinct keys.                                                  *)

DictKeys(d) == {d[k][1] : k \in DOMAIN d}

\* the mutant of DictSet: a new key is inserted in front
DictSet_Prepend(d, key, value) ==
    IF key \in DictKeys(d)
    THEN [k \in DOMAIN d |-> IF d[k][1] = key THEN <<key, value>> ELSE d[k]]
    ELSE <<<<key, value>>>> \o d

\* d[key] = value
DictSet(d, key, value) ==
    IF key \in DictKeys(d)
    THEN [k \in DOMAIN d |-> IF d[k][1] = key THEN <<key, value>> ELSE d[k]]
    ELSE Append(d, <<key, value>>)

\* d.values()
DictValues(d) == [k \in DOMAIN d |-> d[k][2]]

----------------------------------------------------------------------------
(* Content blocks *)

TextContent(content, partial) ==
    [type |-> "text", content |-> content, partial |-> partial]

ToolUse(name, params, partial) ==
    [type |-> "tool_use", name |-> name, params |-> params, partial |-> partial]

----------------------------------------------------------------------------
(* The inner parameter scan, lines 58-78 *)

\* one iteration of `while param_start < tool_close_pos`: either the loop
\* stops (condition false or a break), or one parameter is stored and the
\* cursor moves to param_end + len(param_end_tag)
ParamStep(msg, param_start, tool_close_pos) ==
    LET param_open  == FindIn(msg, <<"<">>, param_start, tool_close_pos)
        param_close == Find(msg, <<">">>, param_open)
        param_name  == Slice(msg, param_open + 1, param_close)
        param_end_tag == CloseTag(param_name)
        param_end   == Find(msg, param_end_tag, param_close)
        Stop(why)   == [stop |-> TRUE, why |-> why, name |-> <<>>, value |-> <<>>,
                        next |-> param_start]
    IN  IF ~(param_start < tool_close_pos) THEN Stop("loop_end")
        ELSE IF param_open = -1 THEN Stop("no_param_open")
        ELSE IF param_close = -1 THEN Stop("no_param_close")
        ELSE IF param_end = -1 THEN Stop("no_param_end")
        ELSE [stop  |-> FALSE,
              why   |-> "stored",
              name  |-> param_name,
              value |-> Strip(Slice(msg, param_close + 1, param_end)),
              next  |-> param_end + Len(param_end_tag)]

RECURSIVE ScanParams(_, _, _, _)
ScanParams(msg, param_start, tool_close_pos, params) ==
    LET step == ParamStep(msg, param_start, tool_close_pos)
    IN  IF step.stop THEN params
        ELSE ScanParams(msg, step.next, tool_close_pos,
                        DictSet(params, step.name, step.value))

\* whether the inner loop left through a break on a malformed or unclosed
\* parameter tag (lines 66-67, 73-74) rather than by running out of parameters
RECURSIVE ScanAborted(_, _, _)
ScanAborted(msg, param_start, tool_close_pos) ==
    LET step == ParamStep(msg, param_start, tool_close_pos)
    IN  IF step.stop THEN step.why \in {"no_param_close", "no_param_end"}
        ELSE ScanAborted(msg, step.next, tool_close_pos)

\* the mutant of AllParamsHaveValues: the validation of line 81 is skipped
AllParamsHaveValues_Skipped(params) == TRUE

\* all(v.strip() for v in params.values())
AllParamsHaveValues(params) ==
    \A k \in DOMAIN params : Strip(DictValues(params)[k]) /= <<>>

----------------------------------------------------------------------------
(* The outer scan, lines 26-120: what each iteration computes *)

n == Len(assistant_message)

AtTag == i < n /\ assistant_message[i + 1] = "<"

tool_start == i

tool_end == Find(assistant_message, <<">">>, tool_start)

tool_name == Slice(assistant_message, tool_start + 1, tool_end)

tool_close_tag == CloseTag(tool_name)

tool_close_pos == Find(assistant_message, tool_close_tag, tool_end)

tool_params == ScanParams(assistant_message, tool_end + 1, tool_close_pos, <<>>)

text_end == Find(assistant_message, <<"<">>, i)

\* the mutant of AppendText: an empty text is appended as well
AppendText_KeepsEmpty(blocks, text_content, partial) ==
    Append(blocks, TextContent(text_content, partial))

\* the mutant of AppendText: every text block is appended as partial
AppendText_AlwaysPartial(blocks, text_content, partial) ==
    IF text_content /= <<>>
    THEN Append(blocks, TextContent(text_content, TRUE))
    ELSE blocks

\* content_blocks.append(TextContent(content=text_content, partial=p)) under
\* `if text_content:`
AppendText(blocks, text_content, partial) ==
    IF text_content /= <<>>
    THEN Append(blocks, TextContent(text_content, partial))
    ELSE blocks

\* the mutant of IncompleteTagText: the text starts after the '<'
IncompleteTagText_SkipsLt(msg, start) == Strip(SliceFrom(msg, start + 1))

\* lines 33 and 49: text_content = assistant_message[tool_start:].strip()
IncompleteTagText(msg, start) == Strip(SliceFrom(msg, start))

\* the mutant of TailPartial: trailing text is always partial
TailPartial_Always(text_content) == TRUE

\* line 107: partial = not text_content.strip().endswith('.')
TailPartial(text_content) == ~EndsWithPeriod(Strip(text_content))

\* parse_assistant_message as a function of the buffer, lines 21-122: the
\* blocks returned once the outer scan, at index k with blocks collected, has
\* run to its end
RECURSIVE Scan(_, _, _)
Scan(msg, k, blocks) ==
    LET t_end       == Find(msg, <<">">>, k)
        t_name      == Slice(msg, k + 1, t_end)
        t_close_tag == CloseTag(t_name)
        t_close_pos == Find(msg, t_close_tag, t_end)
        params      == ScanParams(msg, t_end + 1, t_close_pos, <<>>)
        after       == t_close_pos + Len(t_close_tag)
        txt_end     == Find(msg, <<"<">>, k)
        tail        == Strip(SliceFrom(msg, k))
    IN  IF ~(k < Len(msg)) THEN blocks
        ELSE IF msg[k + 1] = "<"
        THEN IF t_end = -1 \/ t_close_pos = -1
             THEN AppendText(blocks, IncompleteTagText(msg, k), TRUE)
             ELSE IF AllParamsHaveValues(params)
             THEN Scan(msg, after, Append(blocks, ToolUse(t_name, params, FALSE)))
             ELSE Scan(msg, after,
                       AppendText(blocks, Strip(Slice(msg, k, after)), FALSE))
        ELSE IF txt_end = -1
        THEN AppendText(blocks, tail, TailPartial(tail))
        ELSE Scan(msg, txt_end,
                  AppendText(blocks, Strip(Slice(msg, k, txt_end)), FALSE))

parse_assistant_message(msg) == Scan(msg, 0, <<>>)

----------------------------------------------------------------------------
(* Parser actions *)

\* the upstream producer appends a piece to the buffer and the caller
\* re-invokes parse_assistant_message on the grown buffer
Pieces ==
    { <<"<", "a", ">">>,
      <<"<", "/", "a", ">">>,
      <<"<", "b", ">">>,
      <<"<", "/", "b", ">">>,
      <<"<", "c", ">">>,
      <<"<", "/", "c", ">">>,
      <<"<", "b", ">", "x", "<", "/", "b", ">">>,
      <<"<", "a", ">", " ", "y", ".", "\n", "<", "/", "a", ">">>,
      <<"<", "b", ">", "x", "<", "/", "b", ">", "\n",
        "<", "a", ">", " ", "y", ".", "<", "/", "a", ">">>,
      <<"<", "b", ">", " ", "<", "/", "b", ">">>,
      <<"<", "c", ">", "<", "b", ">", "x", "<", "/", "b", ">", "<", "/", "c", ">">>,
      <<"<", "a", ">", "<", "b", ">">>,
      <<"x">>,
      <<" ">>,
      <<".">>,
      <<"<">> }

ParseStart ==
    /\ assistant_message = <<>>
    /\ i = 0
    /\ content_blocks = <<>>
    /\ pc = "scan"
    /\ chunks = 0

Feed ==
    /\ pc = "done"
    /\ chunks < MaxChunks
    /\ \E p \in Pieces : assistant_message' = assistant_message \o p
    /\ i' = 0
    /\ content_blocks' = <<>>
    /\ pc' = "scan"
    /\ chunks' = chunks + 1

\* line 26: the loop condition is false, line 122 returns
ParseReturn ==
    /\ pc = "scan"
    /\ ~(i < n)
    /\ pc' = "done"
    /\ UNCHANGED <<assistant_message, i, content_blocks, chunks>>

\* lines 31-39: '<' with no '>' after it
TagNoEnd ==
    /\ pc = "scan"
    /\ AtTag
    /\ tool_end = -1
    /\ content_blocks' = AppendText(content_blocks,
                                    IncompleteTagText(assistant_message, tool_start), TRUE)
    /\ pc' = "done"
    /\ UNCHANGED <<assistant_message, i, chunks>>

\* lines 47-55: the closing tag of the action is not in the buffer
TagNoClose ==
    /\ pc = "scan"
    /\ AtTag
    /\ tool_end /= -1
    /\ tool_close_pos = -1
    /\ content_blocks' = AppendText(content_blocks,
                                    IncompleteTagText(assistant_message, tool_start), TRUE)
    /\ pc' = "done"
    /\ UNCHANGED <<assistant_message, i, chunks>>

\* lines 56-86, 95: closed action whose stored parameters all have values
TagToolUse ==
    /\ pc = "scan"
    /\ AtTag
    /\ tool_end /= -1
    /\ tool_close_pos /= -1
    /\ AllParamsHaveValues(tool_params)
    /\ content_blocks' = Append(content_blocks, ToolUse(tool_name, tool_params, FALSE))
    /\ i' = tool_close_pos + Len(tool_close_tag)
    /\ UNCHANGED <<assistant_message, pc, chunks>>

\* lines 56-81, 87-95: closed action with an empty parameter value
TagDemoted ==
    /\ pc = "scan"
    /\ AtTag
    /\ tool_end /= -1
    /\ tool_close_pos /= -1
    /\ ~AllParamsHaveValues(tool_params)
    /\ content_blocks' =
          AppendText(content_blocks,
                     Strip(Slice(assistant_message, tool_start,
                                 tool_close_pos + Len(tool_close_tag))),
                     FALSE)
    /\ i' = tool_close_pos + Len(tool_close_tag)
    /\ UNCHANGED <<assistant_message, pc, chunks>>

\* lines 96-109: text that runs to the end of the buffer
TextTail ==
    /\ pc = "scan"
    /\ i < n
    /\ ~AtTag
    /\ text_end = -1
    /\ LET text_content == Strip(SliceFrom(assistant_message, i))
       IN  content_blocks' = AppendText(content_blocks, text_content,
                                        TailPartial(text_content))
    /\ pc' = "done"
    /\ UNCHANGED <<assistant_message, i, chunks>>

\* the mutant of TextBeforeTag: the cursor stays where it was
TextBeforeTag_Stays ==
    /\ pc = "scan"
    /\ i < n
    /\ ~AtTag
    /\ text_end /= -1
    /\ content_blocks' = AppendText(content_blocks,
                                    Strip(Slice(assistant_message, i, text_end)), FALSE)
    /\ UNCHANGED <<assistant_message, i, pc, chunks>>

\* lines 110-120: text before the next '<'
TextBeforeTag ==
    /\ pc = "scan"
    /\ i < n
    /\ ~AtTag
    /\ text_end /= -1
    /\ content_blocks' = AppendText(content_blocks,
                                    Strip(Slice(assistant_message, i, text_end)), FALSE)
    /\ i' = text_end
    /\ UNCHANGED <<assistant_message, pc, chunks>>

----------------------------------------------------------------------------
(* Tool registry: src/src/tools/tool_manager.py *)

\* the ToolManager instances of the process; "main" is main.py's tool_manager
Managers == {"main", "second"}

\* the names seeded at construction, with their descriptions (lines 39-53)
BasicDescriptions ==
    [read_file                  |-> "Read the contents of a file",
     write_to_file              |-> "Write content to a file",
     replace_in_file            |-> "Make targeted edits to a file",
     ensure_file_in_context     |-> "Ensure file is in context",
     execute_command            |-> "Execute CLI commands on the system",
     search_files               |-> "Perform regex search across files",
     list_files                 |-> "List files and directories",
     list_code_definition_names |-> "List source code definitions",
     ask_followup_question      |-> "Ask the user a follow-up question",
     attempt_completion         |-> "Present the result of a task",
     add_tool                   |-> "Add a new tool",
     update_tool                |-> "Update an existing tool",
     remove_tool                |-> "Remove an existing tool"]

BasicNames == DOMAIN BasicDescriptions

\* the inputs of the registry calls
OpNames == {"read_file", "tool_a", "tool_b"}

\* submitted code, as a sequence of lexemes, with the description passed along
Submissions ==
    { [code |-> <<"lambda", "x">>,          description |-> "first description"],
      [code |-> <<"return", "x">>,          description |-> "second description"],
      [code |-> <<"import", "os">>,         description |-> "first description"],
      [code |-> <<"import", "sys">>,        description |-> "second description"],
      [code |-> <<"x", "=", "subprocess">>, description |-> "first description"] }

\* BasicTool(func, description): editable defaults to False
BasicTool(description) ==
    [kind |-> "basic", description |-> description, editable |-> FALSE]

\* ExtendedTool(name, description): the object behind a reference
ExtendedTool(name, description) ==
    [name |-> name, description |-> description, editable |-> TRUE]

\* an entry of self.tools or EXTENDED_TOOLS that refers to an ExtendedTool
Ref(r) == [kind |-> "extended", ref |-> r]

\* `needle in code`
CodeContains(code, needle) == FindIn(code, needle, 0, Len(code)) /= -1

\* the error _validate_tool_code raises, "none" when it returns
ValidateToolCode(code) ==
    IF CodeContains(code, <<"import", "os">>) \/ CodeContains(code, <<"import", "sys">>)
    THEN "Tool code cannot import restricted modules"
    ELSE IF CodeContains(code, <<"subprocess">>)
    THEN "Tool code cannot use subprocess"
    ELSE "none"

\* hashlib.md5(code.encode()).hexdigest(): a function of the code alone
Md5(code) == <<"md5", code>>

Digit(d) == <<"0", "1", "2", "3", "4", "5", "6", "7", "8", "9">>[d + 1]

\* str(k) for k >= 0
RECURSIVE Str(_)
Str(k) == IF k < 10 THEN <<Digit(k)>> ELSE Str(k \div 10) \o <<Digit(k % 10)>>

ToolVersion(version, timestamp, checksum, description) ==
    [version |-> version, timestamp |-> timestamp, checksum |-> checksum,
     description |-> description]

\* self.tool_versions.get(name, [])
VersionsOf(versions, name) ==
    IF name \in DOMAIN versions THEN versions[name] ELSE <<>>

\* the mutant of CreateNewVersion: the version number is the prior length
CreateNewVersion_OffByOne(versions, name, code, description, t) ==
    LET version == ToolVersion(Str(Len(VersionsOf(versions, name))), t,
                               Md5(code), description)
    IN  [k \in DOMAIN versions \cup {name} |->
            IF k = name THEN Append(VersionsOf(versions, name), version)
            ELSE versions[k]]

\* _create_new_version, lines 124-135, at clock value t
CreateNewVersion(versions, name, code, description, t) ==
    LET version == ToolVersion(Str(Len(VersionsOf(versions, name)) + 1), t,
                               Md5(code), description)
    IN  [k \in DOMAIN versions \cup {name} |->
            IF k = name THEN Append(VersionsOf(versions, name), version)
            ELSE versions[k]]

\* f without key k (del f[k])
Without(f, k) == [x \in DOMAIN f \ {k} |-> f[x]]

\* f with key k set to v (f[k] = v)
With(f, k, v) == [x \in DOMAIN f \cup {k} |-> IF x = k THEN v ELSE f[x]]

\* the references still held by some self.tools or by EXTENDED_TOOLS
LiveRefs(ts, ext) ==
    {ext[k].ref : k \in DOMAIN ext}
    \cup UNION {{ts[m][k].ref : k \in {x \in DOMAIN ts[m] : ts[m][x].kind = "extended"}} :
                    m \in DOMAIN ts}

\* objects nothing refers to are freed
Collect(h, ts, ext) == [r \in DOMAIN h \cap LiveRefs(ts, ext) |-> h[r]]

\* a call and the message of the error it raised, "none" when it returned
Call(op, m, name, error) == [op |-> op, name |-> name, error |-> error]

Raise(op, m, name, error) ==
    /\ last' = Call(op, m, name, error)
    /\ UNCHANGED <<tools, tool_versions, EXTENDED_TOOLS, heap, now>>

\* no add/update run is in progress
NoChain ==
    [state |-> "none", m |-> "", name |-> "", tool_count |-> 0,
     version_count |-> 0, updates |-> 0]

\* the caller of test_tool_manager_extended_tools: it reads
\* len(get_all_tools()) and the number of version logs before add_tool, keeps
\* them while only successful update_tool calls on that name follow, and
\* compares when remove_tool on that name has returned
Track(m, name) ==
    chain' = IF last'.error = "none" /\ last'.op = "add_tool"
             THEN [state |-> "open", m |-> m, name |-> name,
                   tool_count |-> Cardinality(DOMAIN tools[m]),
                   version_count |-> Cardinality(DOMAIN tool_versions[m]),
                   updates |-> 0]
             ELSE IF chain.state = "open" /\ chain.m = m /\ chain.name = name
             THEN IF last'.op = "update_tool" /\ last'.error = "none"
                  THEN [chain EXCEPT !.updates = @ + 1]
                  ELSE IF last'.op = "remove_tool"
                  THEN [chain EXCEPT !.state = "closed"]
                  ELSE NoChain
             ELSE NoChain

\* the process after main.py line 27: one ToolManager, no extended tool
ToolStart ==
    /\ chain = NoChain
    /\ tools = [m \in {"main"} |-> [k \in BasicNames |-> BasicTool(BasicDescriptions[k])]]
    /\ tool_versions = [m \in {"main"} |-> <<>>]
    /\ EXTENDED_TOOLS = <<>>
    /\ heap = <<>>
    /\ now = 0
    /\ last = Call("__init__", "main", "", "none")

\* ToolManager.__init__, lines 37-67, of a further instance
Construct(m) ==
    /\ m \notin DOMAIN tools
    /\ tools' = With(tools, m,
                     [k \in BasicNames \cup DOMAIN EXTENDED_TOOLS |->
                        IF k \in DOMAIN EXTENDED_TOOLS THEN EXTENDED_TOOLS[k]
                        ELSE BasicTool(BasicDescriptions[k])])
    /\ tool_versions' = With(tool_versions, m, <<>>)
    /\ last' = Call("__init__", m, "", "none")
    /\ UNCHANGED <<EXTENDED_TOOLS, heap, now>>

\* the mutant of AlreadyExists: the duplicate check reads the wrong table
AlreadyExists_WrongTable(m, name) == name \in DOMAIN EXTENDED_TOOLS

\* line 81: name in self.tools
AlreadyExists(m, name) == name \in DOMAIN tools[m]

\* the mutant of add_tool: the code is validated after the tool is registered
add_tool_ValidatesLate(m, name, description, code) ==
    /\ m \in DOMAIN tools
    /\ IF AlreadyExists(m, name)
       THEN Raise("add_tool", m, name, "already exists")
       ELSE /\ now < MaxOps
            /\ now' = now + 1
            /\ LET new_tool == now'
                   ts  == [tools EXCEPT ![m] = With(@, name, Ref(new_tool))]
                   ext == With(EXTENDED_TOOLS, name, Ref(new_tool))
               IN  /\ tools' = ts
                   /\ EXTENDED_TOOLS' = ext
                   /\ heap' = Collect(With(heap, new_tool, ExtendedTool(name, description)),
                                      ts, ext)
            /\ IF ValidateToolCode(code) /= "none"
               THEN /\ last' = Call("add_tool", m, name, ValidateToolCode(code))
                    /\ UNCHANGED tool_versions
               ELSE /\ tool_versions' =
                          [tool_versions EXCEPT
                              ![m] = CreateNewVersion(@, name, code, description, now')]
                    /\ last' = Call("add_tool", m, name, "none")

\* add_tool, lines 79-93
add_tool(m, name, description, code) ==
    /\ m \in DOMAIN tools
    /\ IF AlreadyExists(m, name)
       THEN Raise("add_tool", m, name, "already exists")
       ELSE IF ValidateToolCode(code) /= "none"
       THEN Raise("add_tool", m, name, ValidateToolCode(code))
       ELSE /\ now < MaxOps
            /\ now' = now + 1
            /\ LET new_tool == now'
                   ts  == [tools EXCEPT ![m] = With(@, name, Ref(new_tool))]
                   ext == With(EXTENDED_TOOLS, name, Ref(new_tool))
               IN  /\ tools' = ts
                   /\ EXTENDED_TOOLS' = ext
                   /\ heap' = Collect(With(heap, new_tool, ExtendedTool(name, description)),
                                      ts, ext)
            /\ tool_versions' =
                  [tool_versions EXCEPT
                      ![m] = CreateNewVersion(@, name, code, description, now')]
            /\ last' = Call("add_tool", m, name, "none")

\* obj.description = description on the object behind entry e
SetDescription(h, e, description) ==
    [h EXCEPT ![e.ref].description = description]

\* update_tool, lines 95-108
update_tool(m, name, code, description) ==
    /\ m \in DOMAIN tools
    /\ IF name \notin DOMAIN EXTENDED_TOOLS
       THEN Raise("update_tool", m, name, "is not an extended tool")
       ELSE IF ValidateToolCode(code) /= "none"
       THEN Raise("update_tool", m, name, ValidateToolCode(code))
       ELSE IF name \notin DOMAIN tools[m]
       THEN Raise("update_tool", m, name, "KeyError")
       ELSE /\ now < MaxOps
            /\ now' = now + 1
            /\ IF tools[m][name].kind = "basic"
               THEN /\ tools' = [tools EXCEPT ![m][name].description = description]
                    /\ heap' = SetDescription(heap, EXTENDED_TOOLS[name], description)
               ELSE /\ tools' = tools
                    /\ heap' = SetDescription(
                                  SetDescription(heap, tools[m][name], description),
                                  EXTENDED_TOOLS[name], description)
            /\ tool_versions' =
                  [tool_versions EXCEPT
                      ![m] = CreateNewVersion(@, name, code, description, now')]
            /\ last' = Call("update_tool", m, name, "none")
            /\ UNCHANGED EXTENDED_TOOLS

\* the mutant of remove_tool: the name is not looked up in EXTENDED_TOOLS
remove_tool_Unchecked(m, name) ==
    /\ m \in DOMAIN tools
    /\ IF name \notin DOMAIN tools[m]
       THEN Raise("remove_tool", m, name, "KeyError")
       ELSE /\ LET ts  == [tools EXCEPT ![m] = Without(@, name)]
                   ext == Without(EXTENDED_TOOLS, name)
               IN  /\ tools' = ts
                   /\ EXTENDED_TOOLS' = ext
                   /\ heap' = Collect(heap, ts, ext)
            /\ tool_versions' =
                  [tool_versions EXCEPT
                      ![m] = IF name \in DOMAIN @ THEN Without(@, name) ELSE @]
            /\ last' = Call("remove_tool", m, name, "none")
            /\ UNCHANGED now

\* the mutant of remove_tool: the version log of the name is kept
remove_tool_KeepsLog(m, name) ==
    /\ m \in DOMAIN tools
    /\ IF name \notin DOMAIN EXTENDED_TOOLS
       THEN Raise("remove_tool", m, name, "is not an extended tool")
       ELSE IF name \notin DOMAIN tools[m]
       THEN Raise("remove_tool", m, name, "KeyError")
       ELSE /\ LET ts  == [tools EXCEPT ![m] = Without(@, name)]
                   ext == Without(EXTENDED_TOOLS, name)
               IN  /\ tools' = ts
                   /\ EXTENDED_TOOLS' = ext
                   /\ heap' = Collect(heap, ts, ext)
            /\ last' = Call("remove_tool", m, name, "none")
            /\ UNCHANGED <<now, tool_versions>>

\* remove_tool, lines 110-118
remove_tool(m, name) ==
    /\ m \in DOMAIN tools
    /\ IF name \notin DOMAIN EXTENDED_TOOLS
       THEN Raise("remove_tool", m, name, "is not an extended tool")
       ELSE IF name \notin DOMAIN tools[m]
       THEN Raise("remove_tool", m, name, "KeyError")
       ELSE /\ LET ts  == [tools EXCEPT ![m] = Without(@, name)]
                   ext == Without(EXTENDED_TOOLS, name)
               IN  /\ tools' = ts
                   /\ EXTENDED_TOOLS' = ext
                   /\ heap' = Collect(heap, ts, ext)
            /\ tool_versions' =
                  [tool_versions EXCEPT
                      ![m] = IF name \in DOMAIN @ THEN Without(@, name) ELSE @]
            /\ last' = Call("remove_tool", m, name, "none")
            /\ UNCHANGED now
----------------------------------------------------------------------------
(* The orchestrator loop of main(), src/src/main.py lines 283-465 *)

\* what dict.get returns for a missing key
None == [kind |-> "None"]

\* get_tool, tool_manager.py lines 69-73: the error raised and the value returned
get_tool(m, name) ==
    IF name \notin DOMAIN tools[m]
    THEN [error |-> "not found", tool |-> None]
    ELSE [error |-> "none", tool |-> tools[m][name]]

\* the tool names a response can carry
UseNames == {"read_file", "execute_command", "tool_a"}

Responses == UNION {[1..k -> UseNames] : k \in 0..MaxUses}

\* what tool(**tool_use.params) does, lines 389-415
CallOutcomes == {"result", "no result", "exception"}

Panel(title, name) == [title |-> title, name |-> name]

MainStart ==
    /\ main_pc = "input"
    /\ tool_uses = <<>>
    /\ use_index = 1
    /\ turns = 0
    /\ console = Panel("Welcome", "")

\* lines 306-308: the user types exit or quit; lines 295-300: end of input
Exit ==
    /\ main_pc = "input"
    /\ main_pc' = "finished"
    /\ console' = Panel("Session finished", "")
    /\ UNCHANGED <<tool_uses, use_index, turns>>

\* the continue paths, lines 288-289, 302-304, 310-325, 373-380, 462-465:
\* the loop reads the next input without dispatching anything
NextInput ==
    /\ main_pc = "input"
    /\ turns < MaxTurns
    /\ turns' = turns + 1
    /\ UNCHANGED <<main_pc, tool_uses, use_index, console>>

\* lines 327-386: a response has been streamed and its tool uses are iterated
Respond(uses) ==
    /\ main_pc = "input"
    /\ turns < MaxTurns
    /\ turns' = turns + 1
    /\ tool_uses' = uses
    /\ use_index' = 1
    /\ main_pc' = "dispatch"
    /\ console' = Panel("Assistant", "")

\* one iteration of the for loop, lines 386-423; an exception of get_tool
\* (line 387) is raised outside every try block of main() and is caught
\* only around asyncio.run(main()), lines 476-481
DispatchToolUse(outcome) ==
    /\ main_pc = "dispatch"
    /\ use_index <= Len(tool_uses)
    /\ LET name   == tool_uses[use_index]
           lookup == get_tool("main", name)
       IN  IF lookup.error /= "none"
           THEN /\ main_pc' = "raised"
                /\ console' = Panel("Error", name)
                /\ UNCHANGED <<tool_uses, use_index, turns>>
           ELSE /\ console' = IF lookup.tool = None THEN Panel("Tool Warning", name)
                              ELSE IF outcome = "exception" THEN Panel("Tool Error", name)
                              ELSE Panel("Tool Execution", name)
                /\ use_index' = use_index + 1
                /\ UNCHANGED <<main_pc, tool_uses, turns>>

\* the for loop is exhausted; lines 425-461 print test results, if any, and
\* the while loop reads the next input
DispatchDone ==
    /\ main_pc = "dispatch"
    /\ use_index > Len(tool_uses)
    /\ main_pc' = "input"
    /\ UNCHANGED <<tool_uses, use_index, turns, console>>

----------------------------------------------------------------------------
(* TerminalProcess, src/src/file_ops/terminal_manager.py lines 66-229: one   *)
(* session, its subprocess, its reader thread, the event loop that fires    *)
(* its hot timer, and a thread that calls get_unretrieved_output.           *)

\* the escape and bell characters, \x1B and \x07
ESC == "ESC"

BEL == "BEL"

UpperCase ==
    <<"A", "B", "C", "D", "E", "F", "G", "H", "I", "J", "K", "L", "M",
      "N", "O", "P", "Q", "R", "S", "T", "U", "V", "W", "X", "Y", "Z">>

LowerCase ==
    <<"a", "b", "c", "d", "e", "f", "g", "h", "i", "j", "k", "l", "m",
      "n", "o", "p", "q", "r", "s", "t", "u", "v", "w", "x", "y", "z">>

Range(f) == {f[k] : k \in DOMAIN f}

\* s.lower()
Lower(s) ==
    [k \in DOMAIN s |->
        IF s[k] \in Range(UpperCase)
        THEN LowerCase[CHOOSE j \in DOMAIN UpperCase : UpperCase[j] = s[k]]
        ELSE s[k]]

\* sub in s
Contains(s, sub) == Find(s, sub, 0) /= -1

\* s.rstrip(chars)
RStrip(s, chars) ==
    LET keep == {k \in 1..Len(s) : s[k] \notin chars}
    IN  IF keep = {} THEN <<>> ELSE SubSeq(s, 1, Max(keep))

\* the character classes of the regular expression of line 153, as far as
\* their members occur in the model: [@-Z\\-_], [0-?], [ -/] and [@-~]
AnsiSingle == {"@", "]", "^", "_"} \cup Range(UpperCase)

AnsiParameter ==
    {"0", "1", "2", "3", "4", "5", "6", "7", "8", "9", ":", ";", "<", "=", ">", "?"}

AnsiIntermediate ==
    {" ", "!", "#", "$", "%", "&", "(", ")", "*", "+", ",", "-", ".", "/"}

AnsiFinal ==
    {"@", "[", "]", "^", "_", "{", "|", "}", "~"}
        \cup Range(UpperCase) \cup Range(LowerCase)

\* the first position at or after k (1-based) whose character is outside cls
RunEnd(s, k, cls) ==
    Min({j \in k..Len(s) : s[j] \notin cls} \cup {Len(s) + 1})

\* the last position of the match of the line 153 expression that starts at
\* position k, or 0 when it does not match there
AnsiMatchEnd(s, k) ==
    IF s[k] /= ESC \/ k = Len(s) THEN 0
    ELSE IF s[k + 1] \in AnsiSingle THEN k + 1
    ELSE IF s[k + 1] /= "[" THEN 0
    ELSE LET q == RunEnd(s, RunEnd(s, k + 2, AnsiParameter), AnsiIntermediate)
         IN  IF q <= Len(s) /\ s[q] \in AnsiFinal THEN q ELSE 0

\* the last position of the match of the line 159 expression that starts at
\* position k, or 0 when it does not match there
VscodeMatchEnd(s, k) ==
    IF k + 5 > Len(s) \/ SubSeq(s, k, k + 5) /= <<ESC, "]", "6", "3", "3", ";">>
    THEN 0
    ELSE LET q == RunEnd(s, k + 6, {c \in Range(s) : c /= BEL})
         IN  IF q <= Len(s) THEN q ELSE 0

\* ansi_escape.sub("", text) from position k on: the leftmost match is cut
\* and the scan goes on behind it
RECURSIVE StripAnsiFrom(_, _)
StripAnsiFrom(s, k) ==
    IF k > Len(s) THEN <<>>
    ELSE IF AnsiMatchEnd(s, k) > 0 THEN StripAnsiFrom(s, AnsiMatchEnd(s, k) + 1)
    ELSE <<s[k]>> \o StripAnsiFrom(s, k + 1)

\* _strip_ansi, lines 151-154
StripAnsi(text) == StripAnsiFrom(text, 1)

\* vscode_sequence_regex.sub("", data) from position k on
RECURSIVE StripVscodeFrom(_, _)
StripVscodeFrom(s, k) ==
    IF k > Len(s) THEN <<>>
    ELSE IF VscodeMatchEnd(s, k) > 0 THEN StripVscodeFrom(s, VscodeMatchEnd(s, k) + 1)
    ELSE <<s[k]>> \o StripVscodeFrom(s, k + 1)

\* _handle_vscode_sequences, lines 156-160
HandleVscodeSequences(data_) == StripVscodeFrom(data_, 1)

\* lines 81-82
PROCESS_HOT_TIMEOUT_NORMAL == 2

PROCESS_HOT_TIMEOUT_COMPILING == 15

\* lines 173-180
compiling_markers ==
    { <<"c", "o", "m", "p", "i", "l", "i", "n", "g">>,
      <<"b", "u", "i", "l", "d", "i", "n", "g">>,
      <<"b", "u", "n", "d", "l", "i", "n", "g">>,
      <<"t", "r", "a", "n", "s", "p", "i", "l", "i", "n", "g">>,
      <<"g", "e", "n", "e", "r", "a", "t", "i", "n", "g">>,
      <<"s", "t", "a", "r", "t", "i", "n", "g">> }

\* lines 181-194
marker_nullifiers ==
    { <<"c", "o", "m", "p", "i", "l", "e", "d">>,
      <<"s", "u", "c", "c", "e", "s", "s">>,
      <<"f", "i", "n", "i", "s", "h">>,
      <<"c", "o", "m", "p", "l", "e", "t", "e">>,
      <<"s", "u", "c", "c", "e", "e", "d">>,
      <<"d", "o", "n", "e">>,
      <<"e", "n", "d">>,
      <<"s", "t", "o", "p">>,
      <<"e", "x", "i", "t">>,
      <<"t", "e", "r", "m", "i", "n", "a", "t", "e">>,
      <<"e", "r", "r", "o", "r">>,
      <<"f", "a", "i", "l">> }

\* lines 196-198
is_compiling(chunk) ==
    /\ \E marker \in compiling_markers : Contains(Lower(chunk), marker)
    /\ ~ \E nullifier \in marker_nullifiers : Contains(Lower(chunk), nullifier)

\* lines 200-204
HotTimeout(chunk) ==
    IF is_compiling(chunk) THEN PROCESS_HOT_TIMEOUT_COMPILING
    ELSE PROCESS_HOT_TIMEOUT_NORMAL

\* the characters of the prompt pattern of line 228, [%$#>]
PromptChars == {"%", "$", "#", ">"}

\* _remove_last_line_artifacts, lines 224-229: the text is right-stripped,
\* split at newlines, the leftmost match of [%$#>]\s*$ is cut from the last
\* line, and the lines are joined again
RemoveLastLineArtifacts(output) ==
    LET o       == RStrip(output, Whitespace)
        breaks  == {k \in 1..Len(o) : o[k] = "\n"}
        start   == IF breaks = {} THEN 1 ELSE Max(breaks) + 1
        matches == {k \in start..Len(o) :
                       /\ o[k] \in PromptChars
                       /\ \A j \in (k + 1)..Len(o) : o[j] \in Whitespace}
    IN  IF matches = {} THEN o ELSE SubSeq(o, 1, Min(matches) - 1)

\* what iterating the text-mode stdout yields: whole lines
Lines ==
    { <<"c", "o", "m", "p", "i", "l", "i", "n", "g", "\n">>,
      <<"B", "u", "i", "l", "d", " ", "c", "o", "m", "p", "l", "e", "t", "e", "\n">>,
      <<"S", "t", "a", "r", "t", "i", "n", "g", " ", "d", "o", "n", "e", "\n">>,
      <<ESC, "[", "0", "m", "o", "k", ">", "\n">>,
      <<ESC, "]", "6", "3", "3", ";", "A", BEL, "o", "k", "\n">> }

\* an unterminated last line, yielded when the stream ends
Tails == { <<"$", " ">> }

\* self._buffer is not assigned by __init__, lines 84-94
Unset == [set |-> FALSE, value |-> <<>>]

\* no TimerHandle
NoTimer == [timeout |-> 0, by |-> -1]

\* the handle loop.call_later returns; by is 0 for run and k for chunk k
TimerHandle(timeout, by) == [timeout |-> timeout, by |-> by]

Event(type, payload) == [type |-> type, data |-> payload]

\* TerminalProcess.__init__, lines 84-94
SessionStart ==
    /\ process = "None"
    /\ stdout = <<>>
    /\ written = 0
    /\ output_buffer = <<>>
    /\ buffer = Unset
    /\ last_retrieved_index = 0
    /\ is_hot = FALSE
    /\ hot_timer = NoTimer
    /\ scheduled = {}
    /\ lock = "free"
    /\ reader_pc = "not started"
    /\ data = <<>>
    /\ nread = 0
    /\ events = <<>>
    /\ caller_pc = "idle"
    /\ unretrieved = <<>>
    /\ drained = <<>>
    /\ stderr = 0

\* _set_hot_timer, lines 208-215: the handle held is cancelled and replaced
SetHotTimer(timeout, by) ==
    /\ hot_timer' = TimerHandle(timeout, by)
    /\ scheduled' = (scheduled \ {hot_timer}) \cup {TimerHandle(timeout, by)}

\* run, lines 106-123
Run ==
    /\ process = "None"
    /\ process' = "running"
    /\ is_hot' = TRUE
    /\ SetHotTimer(PROCESS_HOT_TIMEOUT_NORMAL, 0)
    /\ reader_pc' = "next"
    /\ UNCHANGED <<stdout, stderr, written, output_buffer, buffer, last_retrieved_index,
                   lock, data, nread, events, caller_pc, unretrieved, drained>>

\* the subprocess writes a line to its stdout
Write(line) ==
    /\ process = "running"
    /\ written < MaxLines
    /\ stdout' = Append(stdout, line)
    /\ written' = written + 1
    /\ UNCHANGED <<process, stderr, output_buffer, buffer, last_retrieved_index, is_hot,
                   hot_timer, scheduled, lock, reader_pc, data, nread, events,
                   caller_pc, unretrieved, drained>>

\* the subprocess writes a chunk to its stderr, which run made a pipe (line
\* 113): the chunk stays in the pipe, and with the pipe full the write blocks
WriteErr ==
    /\ process = "running"
    /\ IF stderr < PipeCapacity
       THEN stderr' = stderr + 1 /\ UNCHANGED process
       ELSE process' = "blocked" /\ UNCHANGED stderr
    /\ UNCHANGED <<stdout, written, output_buffer, buffer, last_retrieved_index,
                   is_hot, hot_timer, scheduled, lock, reader_pc, data, nread,
                   events, caller_pc, unretrieved, drained>>

\* the subprocess exits and its stdout is closed, after an unterminated last
\* line or without one
ProcessExits(tail) ==
    /\ process = "running"
    /\ process' = "exited"
    /\ stdout' = IF tail = <<>> THEN stdout ELSE Append(stdout, tail)
    /\ UNCHANGED <<stderr, written, output_buffer, buffer, last_retrieved_index, is_hot,
                   hot_timer, scheduled, lock, reader_pc, data, nread, events,
                   caller_pc, unretrieved, drained>>

\* the callback of line 214 runs on the event loop
TimerFires(h) ==
    /\ h \in scheduled
    /\ scheduled' = scheduled \ {h}
    /\ is_hot' = FALSE
    /\ UNCHANGED <<process, stdout, stderr, written, output_buffer, buffer,
                   last_retrieved_index, hot_timer, lock, reader_pc, data, nread,
                   events, caller_pc, unretrieved, drained>>

\* line 128: the for loop of the reader thread takes the next chunk
ReaderTakes ==
    /\ reader_pc = "next"
    /\ stdout /= <<>>
    /\ data' = Head(stdout)
    /\ stdout' = Tail(stdout)
    /\ nread' = nread + 1
    /\ reader_pc' = "acquire"
    /\ UNCHANGED <<process, stderr, written, output_buffer, buffer, last_retrieved_index,
                   is_hot, hot_timer, scheduled, lock, events, caller_pc,
                   unretrieved, drained>>

\* the mutant of ReadOutputEnd: the end of the stream leaves is_hot alone
ReadOutputEnd_LeavesHot ==
    /\ reader_pc = "next"
    /\ stdout = <<>>
    /\ process = "exited"
    /\ events' = events \o <<Event("COMPLETED", <<>>), Event("CONTINUE", <<>>)>>
    /\ reader_pc' = "done"
    /\ UNCHANGED <<process, stdout, stderr, written, output_buffer, buffer,
                   last_retrieved_index, is_hot, hot_timer, scheduled, lock, data,
                   nread, caller_pc, unretrieved, drained>>

\* lines 132-134: the stream has ended
ReadOutputEnd ==
    /\ reader_pc = "next"
    /\ stdout = <<>>
    /\ process = "exited"
    /\ events' = events \o <<Event("COMPLETED", <<>>), Event("CONTINUE", <<>>)>>
    /\ is_hot' = FALSE
    /\ reader_pc' = "done"
    /\ UNCHANGED <<process, stdout, stderr, written, output_buffer, buffer,
                   last_retrieved_index, hot_timer, scheduled, lock, data, nread,
                   caller_pc, unretrieved, drained>>

\* the mutant of Acquire: the section is entered without the lock being free
Acquire_Unlocked(thread) == lock' = thread

\* with self._lock, lines 129 and 219
Acquire(thread) == lock = "free" /\ lock' = thread

\* line 129: the reader enters its locked section
ReaderLocks ==
    /\ reader_pc = "acquire"
    /\ Acquire("reader")
    /\ reader_pc' = "append"
    /\ UNCHANGED <<process, stdout, stderr, written, output_buffer, buffer,
                   last_retrieved_index, is_hot, hot_timer, scheduled, data, nread,
                   events, caller_pc, unretrieved, drained>>

\* _process_output, lines 138-145: the chunk is cleaned and appended
ReaderAppends ==
    /\ reader_pc = "append"
    /\ data' = HandleVscodeSequences(StripAnsi(data))
    /\ output_buffer' = output_buffer \o data'
    /\ reader_pc' = "emit"
    /\ UNCHANGED <<process, stdout, stderr, written, buffer, last_retrieved_index, is_hot,
                   hot_timer, scheduled, lock, nread, events, caller_pc,
                   unretrieved, drained>>

\* the while loop of lines 165-169 on line buffer buf
RECURSIVE EmitLines(_, _, _, _)
EmitLines(buf, evs, cursor, out_len) ==
    LET line_end_index == Find(buf, <<"\n">>, 0)
        rest == SliceFrom(buf, line_end_index + 1)
    IN  IF line_end_index = -1
        THEN [raised |-> FALSE, buffer |-> [set |-> TRUE, value |-> buf],
              events |-> evs, cursor |-> cursor]
        ELSE EmitLines(rest,
                       Append(evs, Event("LINE",
                                         RStrip(Slice(buf, 0, line_end_index), {"\r"}))),
                       out_len - Len(rest), out_len)

\* the mutant of EmitIfEol: self._buffer starts as the empty string
EmitIfEol_BufferSet(chunk) ==
    EmitLines(buffer.value \o chunk, events, last_retrieved_index,
              Len(output_buffer))

\* _emit_if_eol, lines 162-169; reading the unassigned self._buffer in line
\* 164 raises AttributeError
EmitIfEol(chunk) ==
    IF ~buffer.set
    THEN [raised |-> TRUE, buffer |-> buffer, events |-> events,
          cursor |-> last_retrieved_index]
    ELSE EmitLines(buffer.value \o chunk, events, last_retrieved_index,
                   Len(output_buffer))

\* what an event has in _event_handlers (on, lines 96-99) when it is emitted:
\* no handler, or one that calls get_unretrieved_output on the session
Handlers == {"none", "drains"}

\* lines 146-149 and the end of the with block of line 129: lines are emitted
\* and the hot timer is re-armed; an exception ends the reader thread. _emit
\* (lines 101-104) calls the handlers of LINE in the reader thread, inside
\* the with block: a handler that drains stops at line 219, before the
\* buffer of line 168 is assigned, for the lock its own thread holds
ReaderEmits ==
    /\ reader_pc = "emit"
    /\ \E handler \in Handlers :
          LET r == EmitIfEol(data)
          IN  IF r.raised
              THEN /\ reader_pc' = "raised"
                   /\ lock' = "free"
                   /\ UNCHANGED <<buffer, events, last_retrieved_index,
                                  hot_timer, scheduled>>
              ELSE IF handler = "drains" /\ Len(r.events) > Len(events)
              THEN /\ buffer' = [set |-> TRUE, value |-> buffer.value \o data]
                   /\ events' = Append(events, r.events[Len(events) + 1])
                   /\ reader_pc' = "handler acquire"
                   /\ UNCHANGED <<last_retrieved_index, hot_timer, scheduled,
                                  lock>>
              ELSE /\ buffer' = r.buffer
                   /\ events' = r.events
                   /\ last_retrieved_index' = r.cursor
                   /\ SetHotTimer(HotTimeout(data), nread)
                   /\ reader_pc' = "next"
                   /\ lock' = "free"
    /\ UNCHANGED <<process, stdout, stderr, written, output_buffer, is_hot, data, nread,
                   caller_pc, unretrieved, drained>>

\* line 219: a caller of get_unretrieved_output enters its locked section
CallerLocks ==
    /\ caller_pc = "idle"
    /\ Len(drained) < MaxDrains
    /\ Acquire("caller")
    /\ caller_pc' = "slice"
    /\ UNCHANGED <<process, stdout, stderr, written, output_buffer, buffer,
                   last_retrieved_index, is_hot, hot_timer, scheduled, reader_pc,
                   data, nread, events, unretrieved, drained>>

\* line 220
CallerSlices ==
    /\ caller_pc = "slice"
    /\ unretrieved' = SliceFrom(output_buffer, last_retrieved_index)
    /\ caller_pc' = "advance"
    /\ UNCHANGED <<process, stdout, stderr, written, output_buffer, buffer,
                   last_retrieved_index, is_hot, hot_timer, scheduled, lock,
                   reader_pc, data, nread, events, drained>>

\* the mutant of CursorAfterDrain: the read cursor stays where it was
CursorAfterDrain_Stays == last_retrieved_index

\* line 221
CursorAfterDrain == Len(output_buffer)

\* lines 221-222: the cursor is moved, the lock released and the slice returned
\* without its artifacts
CallerReturns ==
    /\ caller_pc = "advance"
    /\ last_retrieved_index' = CursorAfterDrain
    /\ drained' = Append(drained, [slice |-> unretrieved,
                                   returned |-> RemoveLastLineArtifacts(unretrieved),
                                   by |-> "caller"])
    /\ lock' = "free"
    /\ caller_pc' = "idle"
    /\ UNCHANGED <<process, stdout, stderr, written, output_buffer, buffer, is_hot,
                   hot_timer, scheduled, reader_pc, data, nread, events,
                   unretrieved>>

\* line 132 with a handler of COMPLETED that drains: the stream has ended
\* and _emit calls the handler in the reader thread, outside the with block
EmitCompleted ==
    /\ reader_pc = "next"
    /\ stdout = <<>>
    /\ process = "exited"
    /\ Len(drained) < MaxDrains
    /\ events' = Append(events, Event("COMPLETED", <<>>))
    /\ reader_pc' = "handler acquire"
    /\ UNCHANGED <<process, stdout, stderr, written, output_buffer, buffer,
                   last_retrieved_index, is_hot, hot_timer, scheduled, lock, data,
                   nread, caller_pc, unretrieved, drained>>

\* line 219, called by a handler: the reader thread waits for the lock
HandlerLocks ==
    /\ reader_pc = "handler acquire"
    /\ Acquire("reader")
    /\ reader_pc' = "handler"
    /\ UNCHANGED <<process, stdout, stderr, written, output_buffer, buffer,
                   last_retrieved_index, is_hot, hot_timer, scheduled, data, nread,
                   events, caller_pc, unretrieved, drained>>

\* lines 220-222 in the handler of COMPLETED, then lines 133-134
HandlerReturns ==
    /\ reader_pc = "handler"
    /\ LET slice == SliceFrom(output_buffer, last_retrieved_index)
       IN  drained' = Append(drained,
                             [slice |-> slice,
                              returned |-> RemoveLastLineArtifacts(slice),
                              by |-> "handler"])
    /\ last_retrieved_index' = CursorAfterDrain
    /\ lock' = "free"
    /\ events' = Append(events, Event("CONTINUE", <<>>))
    /\ is_hot' = FALSE
    /\ reader_pc' = "done"
    /\ UNCHANGED <<process, stdout, stderr, written, output_buffer, buffer, hot_timer,
                   scheduled, data, nread, caller_pc, unretrieved>>

----------------------------------------------------------------------------
(* TerminalManager, src/src/file_ops/terminal_manager.py lines 246-341 *)

\* what the command of a session does: it ends by itself, it runs until it
\* is sent SIGTERM, or it runs on and ignores SIGTERM
Commands == {"finishes", "runs until SIGTERM", "ignores SIGTERM"}

\* TerminalInfo(terminal_id, busy, last_command, process), lines 45-51; the
\* optional process is <<>> for None and <<id>> for the TerminalProcess that
\* run_command registered under id
TerminalInfo(terminal_id) ==
    [terminal_id |-> terminal_id, busy |-> FALSE, last_command |-> "",
     process |-> <<>>]

\* the TerminalProcess after run, lines 106-123: the subprocess behind
\* _process ("None" when Popen raised) and _is_hot, set once Popen returned
Subprocess(command, spawned) ==
    [state |-> IF spawned THEN "running" ELSE "None", command |-> command,
     sigterm |-> FALSE, is_hot |-> spawned]

\* Popen.terminate(): SIGTERM is sent unless the subprocess has ended
Terminate(p) == IF p.state = "running" THEN [p EXCEPT !.sigterm = TRUE] ELSE p

\* TerminalManager.__init__, lines 256-259
ManagerStart ==
    /\ terminals = <<>>
    /\ processes = <<>>
    /\ next_id = 0
    /\ subprocs = <<>>
    /\ issued = <<>>
    /\ disposed = {}

\* the mutant of Advance: the counter is not incremented
Advance_Stays(id) == id

\* self._next_id += 1, lines 264 and 316
Advance(id) == id + 1

\* the id handed out, with the number of ids disposed before
Issue(id) == Append(issued, [id |-> id, after |-> Cardinality(disposed)])

\* create_terminal, lines 261-272
create_terminal ==
    /\ Len(issued) < MaxIds
    /\ next_id' = Advance(next_id)
    /\ terminals' = With(terminals, next_id, TerminalInfo(next_id))
    /\ issued' = Issue(next_id)
    /\ UNCHANGED <<processes, subprocs, disposed>>

\* run_command, lines 312-322: the process is registered before it is run
run_command(command, spawned) ==
    /\ Len(issued) < MaxIds
    /\ next_id' = Advance(next_id)
    /\ processes' = With(processes, next_id, next_id)
    /\ subprocs' = With(subprocs, next_id, Subprocess(command, spawned))
    /\ issued' = Issue(next_id)
    /\ UNCHANGED <<terminals, disposed>>

\* remove_terminal, lines 293-301
remove_terminal(terminal_id) ==
    /\ terminals' = IF terminal_id \in DOMAIN terminals
                    THEN Without(terminals, terminal_id) ELSE terminals
    /\ IF terminal_id \in DOMAIN processes
       THEN /\ subprocs' = [subprocs EXCEPT ![terminal_id] = Terminate(@)]
            /\ processes' = Without(processes, terminal_id)
       ELSE UNCHANGED <<subprocs, processes>>
    /\ disposed' = disposed \cup
                       ({terminal_id} \cap (DOMAIN terminals \cup DOMAIN processes))
    /\ UNCHANGED <<next_id, issued>>

\* dispose_all, lines 336-341
dispose_all ==
    /\ subprocs' = [id \in DOMAIN subprocs |->
                       IF id \in DOMAIN processes THEN Terminate(subprocs[id])
                       ELSE subprocs[id]]
    /\ processes' = <<>>
    /\ disposed' = disposed \cup DOMAIN processes
    /\ UNCHANGED <<terminals, next_id, issued>>

\* a subprocess ends: by itself, or on a SIGTERM it does not ignore
SubprocessEnds(id) ==
    /\ id \in DOMAIN subprocs
    /\ subprocs[id].state = "running"
    /\ \/ subprocs[id].command = "finishes"
       \/ subprocs[id].command = "runs until SIGTERM" /\ subprocs[id].sigterm
    /\ subprocs' = [subprocs EXCEPT ![id].state = "exited"]
    /\ UNCHANGED <<terminals, processes, next_id, issued, disposed>>

\* the callback of _set_hot_timer, lines 210-212: the timeout passed without
\* output and the session is no longer hot, whatever its subprocess does
HotTimerFires(id) ==
    /\ id \in DOMAIN subprocs
    /\ subprocs[id].is_hot
    /\ subprocs' = [subprocs EXCEPT ![id].is_hot = FALSE]
    /\ UNCHANGED <<terminals, processes, next_id, issued, disposed>>

\* line 280: terminal_info.process and not terminal_info.process.is_hot
NotHot(terminal_info) ==
    /\ terminal_info.process /= <<>>
    /\ ~subprocs[terminal_info.process[1]].is_hot

\* get_terminal, lines 274-284
get_terminal(terminal_id) ==
    IF terminal_id \in DOMAIN terminals /\ NotHot(terminals[terminal_id])
    THEN remove_terminal(terminal_id)
    ELSE UNCHANGED manager_vars

\* update_terminal, lines 286-291, with updates = {"process": p}, p the
\* TerminalProcess that run_command returned for id p
update_terminal(terminal_id, p) ==
    IF terminal_id \in DOMAIN terminals /\ ~NotHot(terminals[terminal_id])
    THEN /\ terminals' = [terminals EXCEPT ![terminal_id].process = <<p>>]
         /\ UNCHANGED <<processes, next_id, subprocs, issued, disposed>>
    ELSE get_terminal(terminal_id)

\* get_all_terminals, lines 303-310: get_terminal on every key of _terminals
get_all_terminals ==
    LET removed == {id \in DOMAIN terminals : NotHot(terminals[id])}
    IN  /\ terminals' = [id \in DOMAIN terminals \ removed |-> terminals[id]]
        /\ subprocs' = [id \in DOMAIN subprocs |->
                           IF id \in removed \cap DOMAIN processes
                           THEN Terminate(subprocs[id]) ELSE subprocs[id]]
        /\ processes' = [id \in DOMAIN processes \ removed |-> processes[id]]
        /\ disposed' = disposed \cup removed
        /\ UNCHANGED <<next_id, issued>>

----------------------------------------------------------------------------
(* The diff engine: DiffViewProvider, src/src/file_ops/diff_view_provider.py, *)
(* one provider over the files below its cwd. A path is the sequence of its   *)
(* names below cwd; cwd itself is <<>> and exists. edit_type is assigned in   *)
(* __init__ and reset only, both to None.                                    *)

\* the rel_path arguments of open
Targets == { <<"f">>, <<"a", "f">>, <<"a", "b", "f">> }

\* the accumulated_content arguments of update
Contents ==
    { <<>>, <<"x", "\n">>, <<"x", "\n", "y">>,
      <<"#", " ", "r", "e", "s", "t">> }

\* what is below cwd before the first open: nothing, or directory a with
\* the file a/f in it
Filesystems ==
    { [dirs |-> {}, files |-> <<>>],
      [dirs |-> {<<"a">>}, files |-> (<<"a", "f">> :> <<"x", "\n">>)] }

\* s.split(sep) for a one-character sep of seps, empty pieces kept
RECURSIVE SplitOn(_, _)
SplitOn(s, seps) ==
    LET at == {k \in 1..Len(s) : s[k] \in seps}
    IN  IF at = {} THEN <<s>>
        ELSE <<SubSeq(s, 1, Min(at) - 1)>>
                 \o SplitOn(SubSeq(s, Min(at) + 1, Len(s)), seps)

\* Path.parent
Parent(path) == SubSeq(path, 1, Len(path) - 1)

\* Path.exists()
Exists(f, path) == path = <<>> \/ path \in f.dirs \/ path \in DOMAIN f.files

\* open(path, "w") fails with FileNotFoundError unless the parent is there
CanWrite(f, path) == Parent(path) = <<>> \/ Parent(path) \in f.dirs

\* open(path, "w").write(content)
WriteText(f, path, content) == [f EXCEPT !.files = With(@, path, content)]

\* the loop of _create_directories_for_file, lines 143-147, from the k-th
\* element of file_path.parents on (nearest parent first, as far as cwd):
\* Path.mkdir() without parents=True raises FileNotFoundError when the
\* parent of the directory is missing
RECURSIVE CreateDirectoriesFrom(_, _, _, _)
CreateDirectoriesFrom(path, k, f, created) ==
    LET parent == SubSeq(path, 1, Len(path) - k)
    IN  IF k > Len(path)
        THEN [raised |-> "none", fs |-> f, created |-> created]
        ELSE IF Exists(f, parent)
        THEN CreateDirectoriesFrom(path, k + 1, f, created)
        ELSE IF ~Exists(f, Parent(parent))
        THEN [raised |-> "FileNotFoundError", fs |-> f, created |-> created]
        ELSE CreateDirectoriesFrom(path, k + 1,
                                   [f EXCEPT !.dirs = @ \cup {parent}],
                                   Append(created, parent))

\* _create_directories_for_file, lines 141-148
create_directories_for_file(f, file_path) ==
    CreateDirectoriesFrom(file_path, 1, f, <<>>)

\* the loop of revert_changes, lines 118-120, over created_dirs[1..k] in
\* reverse: a directory that exists and is empty is removed
RECURSIVE RemoveCreatedDirs(_, _, _)
RemoveCreatedDirs(f, created_dirs, k) ==
    LET dir_path == created_dirs[k]
        empty == \A p \in f.dirs \cup DOMAIN f.files : Parent(p) /= dir_path
    IN  IF k = 0 THEN f
        ELSE IF dir_path \in f.dirs /\ empty
        THEN RemoveCreatedDirs([f EXCEPT !.dirs = @ \ {dir_path}], created_dirs, k - 1)
        ELSE RemoveCreatedDirs(f, created_dirs, k - 1)

\* DecorationController.set_active_line, decoration_controller.py lines 64-66
set_active_line(line) == << <<line, line>> >>

\* DecorationController.update_overlay_after_line, lines 55-62
update_overlay_after_line(ranges, line, total_lines) ==
    LET kept == SelectSeq(ranges, LAMBDA r : r[2] < line)
    IN  IF line < total_lines - 1
        THEN Append(kept, <<line + 1, total_lines - 1>>)
        ELSE kept

\* the mutant of FirstNewLine: every line is surfaced again
FirstNewLine_Zero(streamed_lines) == 0

\* the index of the first line of diff_lines, line 66:
\* accumulated_lines[len(self.streamed_lines):]
FirstNewLine(streamed_lines) == Len(streamed_lines)

\* the loop of update, lines 69-74, from current_line on: the ranges of the
\* two controllers and the lines made active so far
RECURSIVE Surface(_, _, _)
Surface(shown, current_line, total_lines) ==
    IF current_line >= total_lines THEN shown
    ELSE Surface([active |-> set_active_line(current_line),
                  faded |-> update_overlay_after_line(shown.faded, current_line,
                                                      total_lines),
                  surfaced |-> Append(shown.surfaced, current_line)],
                 current_line + 1, total_lines)

\* any(re.match(pattern, line) for pattern in comment_patterns), lines
\* 204-211; "DQ" and "SQ" are the double and the single quote character
IsComment(line) ==
    LET text == {k \in 1..Len(line) : line[k] \notin Whitespace}
        rest == IF text = {} THEN <<>> ELSE SubSeq(line, Min(text), Len(line))
    IN  \/ Len(rest) >= 1 /\ rest[1] = "#"
        \/ Len(rest) >= 3 /\ SubSeq(rest, 1, 3) = <<"DQ", "DQ", "DQ">>
        \/ Len(rest) >= 3 /\ SubSeq(rest, 1, 3) = <<"SQ", "SQ", "SQ">>

\* omission_keywords, line 202
omission_keywords ==
    { <<"r", "e", "m", "a", "i", "n">>, <<"r", "e", "m", "a", "i", "n", "s">>,
      <<"u", "n", "c", "h", "a", "n", "g", "e", "d">>, <<"r", "e", "s", "t">>,
      <<"p", "r", "e", "v", "i", "o", "u", "s">>,
      <<"e", "x", "i", "s", "t", "i", "n", "g">>, <<".", ".", ".">> }

\* _detect_code_omission, lines 189-216
detect_code_omission(original_content, new_content) ==
    LET original_lines == Range(SplitOn(original_content, {"\n"}))
        new_lines == Range(SplitOn(new_content, {"\n"}))
        words(line) == {Lower(w) : w \in Range(SplitOn(line, Whitespace)) \ {<<>>}}
    IN  \E line \in new_lines :
            /\ IsComment(line)
            /\ omission_keywords \cap words(line) /= {}
            /\ line \notin original_lines

\* what _log_omission_warning, lines 218-231, prints on status_console; no
\* method of the class and no other module calls it
log_omission_warning(original_content, new_content) ==
    IF detect_code_omission(original_content, new_content)
    THEN <<"Warning: Potential code truncation detected">>
    ELSE <<>>

\* DiffViewProvider.__init__, lines 14-27 (document_was_open and
\* pre_diagnostics are never read); an Optional field is unset for None
NewProvider ==
    [edit_type |-> "None", is_editing |-> FALSE, original_content |-> Unset,
     created_dirs |-> <<>>, rel_path |-> Unset, new_content |-> Unset,
     active_diff_editor |-> FALSE, faded_overlay_controller |-> Unset,
     active_line_controller |-> Unset, streamed_lines |-> <<>>]

\* what a call returned or raised
Returned(op, raised, final_content) ==
    [op |-> op, raised |-> raised, final_content |-> final_content]

\* the session since the last open: its target, the filesystem before it
\* and whether open raised nothing, the last update and the lines made
\* active, whether every update extended the one before, the calls of
\* save_changes and revert_changes that completed, and what was printed on
\* status_console (line 231 is the only print of the module)
NoSession ==
    [opens |-> 0, updates |-> 0, target |-> <<>>,
     before |-> [dirs |-> {}, files |-> <<>>], opened |-> FALSE,
     last |-> Unset, streaming |-> TRUE, surfaced |-> <<>>,
     closed |-> "none", first_close |-> "none", printed |-> <<>>]

ProviderStart ==
    /\ provider = NewProvider
    /\ returned = Returned("__init__", "none", Unset)
    /\ diff_session = NoSession

DiffStart == ProviderStart /\ fs = [dirs |-> {}, files |-> <<>>]

\* open, lines 29-54; read_local_file raises FileNotFoundError for a missing
\* file (operations.py lines 96-97)
open(rel_path) ==
    /\ diff_session.opens < MaxOpens
    /\ LET file_exists == provider.edit_type = "modify"
           named == [provider EXCEPT !.rel_path = [set |-> TRUE, value |-> rel_path],
                                     !.is_editing = TRUE]
           original == [named EXCEPT
                           !.original_content =
                               [set |-> TRUE,
                                value |-> IF file_exists THEN fs.files[rel_path]
                                          ELSE <<>>]]
           made == create_directories_for_file(fs, rel_path)
           controller == [set |-> TRUE, value |-> <<>>]
       IN  IF file_exists /\ rel_path \notin DOMAIN fs.files
           THEN /\ provider' = named
                /\ fs' = fs
                /\ returned' = Returned("open", "FileNotFoundError", Unset)
           ELSE IF made.raised /= "none"
           THEN /\ provider' = original
                /\ fs' = made.fs
                /\ returned' = Returned("open", made.raised, Unset)
           ELSE /\ provider' = [original EXCEPT
                                   !.created_dirs = made.created,
                                   !.active_diff_editor = TRUE,
                                   !.faded_overlay_controller = controller,
                                   !.active_line_controller = controller,
                                   !.streamed_lines = <<>>]
                /\ fs' = IF file_exists THEN made.fs
                         ELSE WriteText(made.fs, rel_path, <<>>)
                /\ returned' = Returned("open", "none", Unset)
    /\ diff_session' = [NoSession EXCEPT !.opens = diff_session.opens + 1,
                                         !.target = rel_path,
                                         !.before = fs,
                                         !.opened = returned'.raised = "none"]

\* update, lines 56-79, with _finalize_update, lines 172-177
update(accumulated_content, is_final) ==
    /\ diff_session.updates < MaxUpdates
    /\ LET split == SplitOn(accumulated_content, {"\n"})
           accumulated_lines == IF is_final THEN split
                                ELSE SubSeq(split, 1, Len(split) - 1)
           shown == Surface([active |-> provider.active_line_controller.value,
                             faded |-> provider.faded_overlay_controller.value,
                             surfaced |-> diff_session.surfaced],
                            FirstNewLine(provider.streamed_lines),
                            Len(accumulated_lines))
           call == [content |-> accumulated_content, is_final |-> is_final]
       IN  IF \/ ~provider.rel_path.set
              \/ ~provider.active_line_controller.set
              \/ ~provider.faded_overlay_controller.set
           THEN /\ returned' = Returned("update", "ValueError", Unset)
                /\ diff_session' = [diff_session EXCEPT !.updates = @ + 1]
                /\ UNCHANGED provider
           ELSE /\ provider' =
                      [provider EXCEPT
                          !.new_content = [set |-> TRUE, value |-> accumulated_content],
                          !.streamed_lines = accumulated_lines,
                          !.active_line_controller.value =
                              IF is_final THEN <<>> ELSE shown.active,
                          !.faded_overlay_controller.value =
                              IF is_final THEN <<>> ELSE shown.faded]
                /\ returned' = Returned("update", "none", Unset)
                /\ diff_session' =
                      [diff_session EXCEPT
                          !.updates = @ + 1,
                          !.streaming =
                              /\ @
                              /\ diff_session.closed = "none"
                              /\ \/ ~diff_session.last.set
                                 \/ /\ ~diff_session.last.value.is_final
                                    /\ IsPrefix(diff_session.last.value.content,
                                                accumulated_content),
                          !.last = [set |-> TRUE, value |-> call],
                          !.surfaced = shown.surfaced]
    /\ UNCHANGED fs

\* the session after a call of op that raised nothing
Closed(op) ==
    [diff_session EXCEPT !.closed = op,
                         !.first_close = IF @ = "none" THEN op ELSE @]

\* save_changes, lines 81-105: None and "" are both falsy in line 83
save_changes ==
    /\ LET absolute_path == provider.rel_path.value
       IN  IF \/ ~provider.rel_path.set
              \/ ~provider.new_content.set
              \/ provider.new_content.value = <<>>
              \/ ~provider.active_diff_editor
           THEN /\ returned' = Returned("save_changes", "none", Unset)
                /\ diff_session' = Closed("save_changes")
                /\ UNCHANGED fs
           ELSE IF ~CanWrite(fs, absolute_path)
           THEN /\ returned' = Returned("save_changes", "FileNotFoundError", Unset)
                /\ UNCHANGED <<fs, diff_session>>
           ELSE /\ fs' = WriteText(fs, absolute_path, provider.new_content.value)
                /\ returned' = Returned("save_changes", "none", provider.new_content)
                /\ diff_session' = Closed("save_changes")
    /\ UNCHANGED provider

\* reset, lines 128-139: rel_path and new_content are left as they are
reset(p) ==
    [NewProvider EXCEPT !.rel_path = p.rel_path, !.new_content = p.new_content]

\* the mutant of RevertCreate: the directories that open created are kept
RevertCreate_KeepsDirs(f, absolute_path, created_dirs) ==
    [f EXCEPT !.files = Without(@, absolute_path)]

\* revert_changes on a session that is not Modify, lines 114-120: the file
\* is unlinked and the created directories are walked back
RevertCreate(f, absolute_path, created_dirs) ==
    RemoveCreatedDirs([f EXCEPT !.files = Without(@, absolute_path)],
                      created_dirs, Len(created_dirs))

\* revert_changes, lines 107-126; Path.unlink() raises FileNotFoundError for
\* a missing file
revert_changes ==
    LET file_exists == provider.edit_type = "modify"
        absolute_path == provider.rel_path.value
        original_content == IF provider.original_content.set
                            THEN provider.original_content.value ELSE <<>>
    IN  IF ~provider.rel_path.set
        THEN /\ returned' = Returned("revert_changes", "none", Unset)
             /\ diff_session' = Closed("revert_changes")
             /\ UNCHANGED <<fs, provider>>
        ELSE IF \/ ~file_exists /\ absolute_path \notin DOMAIN fs.files
                \/ file_exists /\ ~CanWrite(fs, absolute_path)
        THEN /\ returned' = Returned("revert_changes", "FileNotFoundError", Unset)
             /\ UNCHANGED <<fs, provider, diff_session>>
        ELSE /\ fs' = IF file_exists
                      THEN WriteText(fs, absolute_path, original_content)
                      ELSE RevertCreate(fs, absolute_path, provider.created_dirs)
             /\ provider' = reset(provider)
             /\ returned' = Returned("revert_changes", "none", Unset)
             /\ diff_session' = Closed("revert_changes")

----------------------------------------------------------------------------
(* Specifications *)

ParseInit ==
    ParseStart /\ ToolStart /\ MainStart /\ SessionStart /\ ManagerStart
        /\ DiffStart

ParseNext ==
    \/ Feed /\ UNCHANGED <<tool_vars, main_vars, session_vars, manager_vars, diff_vars>>
    \/ ParseReturn /\ UNCHANGED <<tool_vars, main_vars, session_vars, manager_vars, diff_vars>>
    \/ TagNoEnd /\ UNCHANGED <<tool_vars, main_vars, session_vars, manager_vars, diff_vars>>
    \/ TagNoClose /\ UNCHANGED <<tool_vars, main_vars, session_vars, manager_vars, diff_vars>>
    \/ TagToolUse /\ UNCHANGED <<tool_vars, main_vars, session_vars, manager_vars, diff_vars>>
    \/ TagDemoted /\ UNCHANGED <<tool_vars, main_vars, session_vars, manager_vars, diff_vars>>
    \/ TextTail /\ UNCHANGED <<tool_vars, main_vars, session_vars, manager_vars, diff_vars>>
    \/ TextBeforeTag /\ UNCHANGED <<tool_vars, main_vars, session_vars, manager_vars, diff_vars>>

ParseSpec == ParseInit /\ [][ParseNext]_vars

ToolInit ==
    ParseStart /\ ToolStart /\ MainStart /\ SessionStart /\ ManagerStart
        /\ DiffStart

ToolNext ==
    \/ \E m \in Managers :
          Construct(m) /\ Track(m, "")
              /\ UNCHANGED <<parse_vars, main_vars, session_vars, manager_vars, diff_vars>>
    \/ \E m \in Managers, name \in OpNames, s \in Submissions :
          add_tool(m, name, s.description, s.code) /\ Track(m, name)
              /\ UNCHANGED <<parse_vars, main_vars, session_vars, manager_vars, diff_vars>>
    \/ \E m \in Managers, name \in OpNames, s \in Submissions :
          update_tool(m, name, s.code, s.description) /\ Track(m, name)
              /\ UNCHANGED <<parse_vars, main_vars, session_vars, manager_vars, diff_vars>>
    \/ \E m \in Managers, name \in OpNames :
          remove_tool(m, name) /\ Track(m, name)
              /\ UNCHANGED <<parse_vars, main_vars, session_vars, manager_vars, diff_vars>>

ToolSpec == ToolInit /\ [][ToolNext]_vars

MainInit ==
    ParseStart /\ ToolStart /\ MainStart /\ SessionStart /\ ManagerStart
        /\ DiffStart

MainNext ==
    \/ Exit /\ UNCHANGED <<parse_vars, tool_vars, session_vars, manager_vars, diff_vars>>
    \/ NextInput /\ UNCHANGED <<parse_vars, tool_vars, session_vars, manager_vars, diff_vars>>
    \/ \E uses \in Responses : Respond(uses)
        /\ UNCHANGED <<parse_vars, tool_vars, session_vars, manager_vars, diff_vars>>
    \/ \E outcome \in CallOutcomes :
          DispatchToolUse(outcome)
              /\ UNCHANGED <<parse_vars, tool_vars, session_vars, manager_vars, diff_vars>>
    \/ DispatchDone /\ UNCHANGED <<parse_vars, tool_vars, session_vars, manager_vars, diff_vars>>

MainSpec == MainInit /\ [][MainNext]_vars

SessionInit ==
    ParseStart /\ ToolStart /\ MainStart /\ SessionStart /\ ManagerStart
        /\ DiffStart

SessionNext ==
    \/ Run /\ UNCHANGED <<parse_vars, tool_vars, main_vars, manager_vars, diff_vars>>
    \/ \E line \in Lines : Write(line)
        /\ UNCHANGED <<parse_vars, tool_vars, main_vars, manager_vars, diff_vars>>
    \/ WriteErr /\ UNCHANGED <<parse_vars, tool_vars, main_vars, manager_vars, diff_vars>>
    \/ \E tail \in Tails \cup {<<>>} : ProcessExits(tail)
        /\ UNCHANGED <<parse_vars, tool_vars, main_vars, manager_vars, diff_vars>>
    \/ \E h \in scheduled : TimerFires(h)
        /\ UNCHANGED <<parse_vars, tool_vars, main_vars, manager_vars, diff_vars>>
    \/ ReaderTakes /\ UNCHANGED <<parse_vars, tool_vars, main_vars, manager_vars, diff_vars>>
    \/ ReadOutputEnd /\ UNCHANGED <<parse_vars, tool_vars, main_vars, manager_vars, diff_vars>>
    \/ ReaderLocks /\ UNCHANGED <<parse_vars, tool_vars, main_vars, manager_vars, diff_vars>>
    \/ ReaderAppends /\ UNCHANGED <<parse_vars, tool_vars, main_vars, manager_vars, diff_vars>>
    \/ ReaderEmits /\ UNCHANGED <<parse_vars, tool_vars, main_vars, manager_vars, diff_vars>>
    \/ EmitCompleted /\ UNCHANGED <<parse_vars, tool_vars, main_vars, manager_vars, diff_vars>>
    \/ HandlerLocks /\ UNCHANGED <<parse_vars, tool_vars, main_vars, manager_vars, diff_vars>>
    \/ HandlerReturns /\ UNCHANGED <<parse_vars, tool_vars, main_vars, manager_vars, diff_vars>>
    \/ CallerLocks /\ UNCHANGED <<parse_vars, tool_vars, main_vars, manager_vars, diff_vars>>
    \/ CallerSlices /\ UNCHANGED <<parse_vars, tool_vars, main_vars, manager_vars, diff_vars>>
    \/ CallerReturns /\ UNCHANGED <<parse_vars, tool_vars, main_vars, manager_vars, diff_vars>>

SessionSpec == SessionInit /\ [][SessionNext]_vars

\* the threads of the session and its subprocess keep running: a step that
\* stays possible is taken
SessionFairSpec == SessionSpec /\ WF_vars(SessionNext)

ManagerInit ==
    ParseStart /\ ToolStart /\ MainStart /\ SessionStart /\ ManagerStart
        /\ DiffStart

ManagerNext ==
    \/ create_terminal /\ UNCHANGED <<parse_vars, tool_vars, main_vars, session_vars, diff_vars>>
    \/ \E command \in Commands, spawned \in BOOLEAN :
          run_command(command, spawned)
              /\ UNCHANGED <<parse_vars, tool_vars, main_vars, session_vars, diff_vars>>
    \/ \E terminal_id \in 0..(MaxIds - 1) :
          remove_terminal(terminal_id)
              /\ UNCHANGED <<parse_vars, tool_vars, main_vars, session_vars, diff_vars>>
    \/ dispose_all /\ UNCHANGED <<parse_vars, tool_vars, main_vars, session_vars, diff_vars>>
    \/ \E id \in DOMAIN subprocs : SubprocessEnds(id)
        /\ UNCHANGED <<parse_vars, tool_vars, main_vars, session_vars, diff_vars>>
    \/ \E id \in DOMAIN subprocs : HotTimerFires(id)
        /\ UNCHANGED <<parse_vars, tool_vars, main_vars, session_vars, diff_vars>>
    \/ \E terminal_id \in 0..(MaxIds - 1) :
          get_terminal(terminal_id)
              /\ UNCHANGED <<parse_vars, tool_vars, main_vars, session_vars, diff_vars>>
    \/ \E terminal_id \in 0..(MaxIds - 1), p \in DOMAIN subprocs :
          update_terminal(terminal_id, p)
              /\ UNCHANGED <<parse_vars, tool_vars, main_vars, session_vars, diff_vars>>
    \/ get_all_terminals /\ UNCHANGED <<parse_vars, tool_vars, main_vars, session_vars, diff_vars>>

ManagerSpec == ManagerInit /\ [][ManagerNext]_vars

DiffInit ==
    /\ ParseStart /\ ToolStart /\ MainStart /\ SessionStart /\ ManagerStart
    /\ ProviderStart
    /\ fs \in Filesystems

DiffOthers == <<parse_vars, tool_vars, main_vars, session_vars, manager_vars>>

DiffNext ==
    \/ \E rel_path \in Targets : open(rel_path) /\ UNCHANGED DiffOthers
    \/ \E accumulated_content \in Contents, is_final \in BOOLEAN :
          update(accumulated_content, is_final) /\ UNCHANGED DiffOthers
    \/ save_changes /\ UNCHANGED DiffOthers
    \/ revert_changes /\ UNCHANGED DiffOthers

DiffSpec == DiffInit /\ [][DiffNext]_vars

----------------------------------------------------------------------------
(* Parser claims *)

Last(s) == s[Len(s)]

NoLt(msg) == Find(msg, <<"<">>, 0) = -1

TagNames == {<<"a">>, <<"b">>, <<"c">>}

RawValues == {<<"x">>, <<" ", "y", ".", "\n">>, <<" ", "y", ".">>}

Separators == {<<>>, <<"\n">>}

MaxParams == 2

\* the declared parameter lists: up to MaxParams <<name, raw value>> pairs
ParamLists == UNION {[1..k -> TagNames \X RawValues] : k \in 0..MaxParams}

OpenTag(name) == <<"<">> \o name \o <<">">>

RECURSIVE RenderParams(_, _)
RenderParams(ps, sep) ==
    IF ps = <<>> THEN <<>>
    ELSE OpenTag(ps[1][1]) \o ps[1][2] \o CloseTag(ps[1][1])
         \o (IF Len(ps) > 1 THEN sep ELSE <<>>) \o RenderParams(Tail(ps), sep)

\* one complete action tag with its parameter pairs, as text
Render(name, ps, sep) == OpenTag(name) \o RenderParams(ps, sep) \o CloseTag(name)

WellFormedTags ==
    {[name |-> nm, params |-> ps, text |-> Render(nm, ps, sep)] :
        nm \in TagNames, ps \in ParamLists, sep \in Separators}

\* the declared pairs with trimmed values, in declaration order
Declared(ps) == [k \in DOMAIN ps |-> <<ps[k][1], Strip(ps[k][2])>>]

\* parameter names pairwise distinct and different from the action name
DistinctNames(w) ==
    /\ \A j, k \in DOMAIN w.params : j /= k => w.params[j][1] /= w.params[k][1]
    /\ \A k \in DOMAIN w.params : w.params[k][1] /= w.name

WellFormedTexts == {w.text : w \in WellFormedTags}

DistinctTags == {w \in WellFormedTags : DistinctNames(w)}

DistinctTexts == {w.text : w \in DistinctTags}

\* C1 as stated: every buffer that is one complete well-formed action tag with
\* non-empty trimmed parameter values parses to exactly one ToolUse with that
\* name, partial = false and the declared pairs in declaration order.
C1_EveryWellFormedTag ==
    (pc = "done" /\ assistant_message \in WellFormedTexts) =>
        \A w \in WellFormedTags :
            assistant_message = w.text =>
                content_blocks = <<ToolUse(w.name, Declared(w.params), FALSE)>>

\* C1 (amended): the same, for tags whose parameter names are pairwise distinct
\* and differ from the action name (names and values hold no '<' or '>').
C1_WellFormedTagYieldsToolUse ==
    (pc = "done" /\ assistant_message \in DistinctTexts) =>
        \A w \in DistinctTags :
            assistant_message = w.text =>
                content_blocks = <<ToolUse(w.name, Declared(w.params), FALSE)>>

C1_Witness ==
    /\ pc = "done"
    /\ assistant_message =
          Render(<<"c">>, << <<(<<"b">>), (<<"x">>)>>,
                             <<(<<"a">>), (<<" ", "y", ".">>)>> >>, <<"\n">>)
    /\ content_blocks =
          <<ToolUse(<<"c">>, << <<(<<"b">>), (<<"x">>)>>,
                                <<(<<"a">>), (<<"y", ".">>)>> >>, FALSE)>>

\* the scan stands on a '<' with no later '>' or with no closing tag of its
\* name later in the buffer
AtUnterminatedTag ==
    /\ pc = "scan"
    /\ AtTag
    /\ (tool_end = -1 \/ tool_close_pos = -1)

\* C2 as stated: when the scan reaches an unterminated '<', the whole suffix
\* from that '<' to the end of the buffer is emitted as one partial TextBlock,
\* which is the last block of the result.
C2_WholeSuffixEmitted ==
    [][AtUnterminatedTag =>
        /\ pc' = "done"
        /\ content_blocks' =
              Append(content_blocks,
                     TextContent(SliceFrom(assistant_message, i), TRUE))]_vars

\* C2 (amended): when the scan reaches an unterminated '<', the suffix from
\* that '<' to the end of the buffer, with trailing whitespace trimmed, is
\* emitted as one partial TextBlock and parse returns: the block is the last
\* one and nothing after the '<' is classified as an action.
C2_UnterminatedTagIsPartialText ==
    [][AtUnterminatedTag =>
        /\ pc' = "done"
        /\ assistant_message' = assistant_message
        /\ content_blocks' =
              Append(content_blocks,
                     TextContent(Strip(SliceFrom(assistant_message, i)), TRUE))
        /\ Strip(SliceFrom(assistant_message, i))[1] = "<"]_vars

\* an unterminated action tag followed by a complete tag: one partial block
C2_Witness ==
    /\ pc = "done"
    /\ assistant_message = <<"<", "a", ">", "<", "b", ">", "x", "<", "/", "b", ">", " ">>
    /\ content_blocks =
          <<TextContent(<<"<", "a", ">", "<", "b", ">", "x", "<", "/", "b", ">">>, TRUE)>>

\* the scan stands on a closed action tag one of whose stored parameters has an
\* empty or whitespace-only value
AtEmptyParamTag ==
    /\ pc = "scan"
    /\ AtTag
    /\ tool_end /= -1
    /\ tool_close_pos /= -1
    /\ \E k \in DOMAIN tool_params : Strip(tool_params[k][2]) = <<>>

C4_AbortedScanYieldsText ==
    [][(/\ pc = "scan"
        /\ AtTag
        /\ tool_end /= -1
        /\ tool_close_pos /= -1
        /\ ScanAborted(assistant_message, tool_end + 1, tool_close_pos)) =>
            /\ Len(content_blocks') = Len(content_blocks) + 1
            /\ Last(content_blocks').type = "text"]_vars

\* C5 as stated: a buffer without '<' parses to a single TextBlock with the
\* trimmed input, partial exactly when it does not end with '.'; the empty
\* buffer parses to the empty sequence.
C5_SingleTextBlockUnlessEmpty ==
    (pc = "done" /\ NoLt(assistant_message)) =>
        IF assistant_message = <<>>
        THEN content_blocks = <<>>
        ELSE content_blocks =
                <<TextContent(Strip(assistant_message),
                              ~EndsWithPeriod(Strip(assistant_message)))>>

\* C5 (amended): a buffer without '<' parses to a single TextBlock with the
\* trimmed input, partial exactly when the trimmed input does not end with
\* '.'; a buffer that is empty or whitespace only parses to the empty sequence.
C5_PlainTextBuffer ==
    (pc = "done" /\ NoLt(assistant_message)) =>
        IF Strip(assistant_message) = <<>>
        THEN content_blocks = <<>>
        ELSE content_blocks =
                <<TextContent(Strip(assistant_message),
                              ~EndsWithPeriod(Strip(assistant_message)))>>

C5_Witness ==
    /\ pc = "done"
    /\ assistant_message = <<" ", "x", ".">>
    /\ content_blocks = <<TextContent(<<"x", ".">>, FALSE)>>

\* C6: every block other than the last has partial = false (so text between
\* two tags is never partial), and a block is partial only when its
\* terminating delimiter is absent: it is the text of an unterminated tag, or
\* trailing text without a final period, with parse returned on it.
C6_OnlyLastBlockPartial ==
    /\ \A k \in DOMAIN content_blocks :
          content_blocks[k].partial => (k = Len(content_blocks) /\ pc = "done")
    /\ (content_blocks /= <<>> /\ Last(content_blocks).partial) =>
          /\ Last(content_blocks).type = "text"
          /\ i < n
          /\ Last(content_blocks).content = Strip(SliceFrom(assistant_message, i))
          /\ IF AtTag
             THEN tool_end = -1 \/ tool_close_pos = -1
             ELSE /\ text_end = -1
                  /\ ~EndsWithPeriod(Last(content_blocks).content)

\* text, action, text: the text between is complete, the trailing one partial
C6_Witness ==
    /\ pc = "done"
    /\ Len(content_blocks) = 3
    /\ content_blocks[1].type = "text"
    /\ content_blocks[2].type = "tool_use"
    /\ content_blocks[3].type = "text"
    /\ content_blocks[3].partial

\* what a block reports: that it is text, with its content, or that it is
\* an action, with its name
Shape(block) ==
    IF block.type = "text" THEN <<"text", block.content>>
    ELSE <<"tool_use", block.name>>

Shapes(blocks) == [k \in DOMAIN blocks |-> Shape(blocks[k])]

\* msg read as a sequence of segments, each a text run free of '<' or one of
\* the complete tags whose texts are given: whether it can be read so, and
\* the shapes of one action per tag and one text per non-empty trimmed run
RECURSIVE Segments(_, _, _)
Segments(msg, tags, texts) ==
    IF msg = <<>> THEN [ok |-> TRUE, shapes |-> <<>>]
    ELSE IF msg[1] = "<"
    THEN LET ends == {e \in 1..Len(msg) :
                         msg[e] = ">" /\ SubSeq(msg, 1, e) \in texts}
         IN  IF ends = {} THEN [ok |-> FALSE, shapes |-> <<>>]
             ELSE LET w    == CHOOSE w \in tags : w.text = SubSeq(msg, 1, Min(ends))
                      rest == Segments(SubSeq(msg, Min(ends) + 1, Len(msg)),
                                       tags, texts)
                  IN  [ok |-> rest.ok,
                       shapes |-> << <<"tool_use", w.name>> >> \o rest.shapes]
    ELSE LET lt   == Find(msg, <<"<">>, 0)
             e    == IF lt = -1 THEN Len(msg) ELSE lt
             run  == Strip(SubSeq(msg, 1, e))
             rest == Segments(SubSeq(msg, e + 1, Len(msg)), tags, texts)
         IN  [ok |-> rest.ok,
              shapes |-> (IF run = <<>> THEN <<>> ELSE << <<"text", run>> >>)
                            \o rest.shapes]

\* the tags none of whose parameters is named like the action itself
OwnNameFreeTags ==
    {w \in WellFormedTags : \A k \in DOMAIN w.params : w.params[k][1] /= w.name}

OwnNameFreeTexts == {w.text : w \in OwnNameFreeTags}

StableUnder(old, new) ==
    \A k \in DOMAIN old :
        (old[k].type = "tool_use" /\ ~old[k].partial) =>
            /\ Len(new) >= k
            /\ SubSeq(new, 1, k) = SubSeq(old, 1, k)

\* C35: streaming stability: if parse(B) contains a non-partial ToolUse at
\* position k, then parse of every extension of B contains the identical
\* ToolUse at position k and the same blocks before it.
C35_CompleteActionsStable ==
    [][(pc = "done" /\ pc' = "scan") =>
          StableUnder(content_blocks,
                      parse_assistant_message(assistant_message'))]_vars

\* the values the inner scan stores all end at or before the closing tag of
\* the action at close_pos: param_end, where the closing tag of the parameter
\* was found, is not behind it
RECURSIVE ParamsWithin(_, _, _)
ParamsWithin(msg, param_start, close_pos) ==
    LET step == ParamStep(msg, param_start, close_pos)
    IN  step.stop \/ (step.next - Len(CloseTag(step.name)) <= close_pos
                          /\ ParamsWithin(msg, step.next, close_pos))

\* the scan stands at a closed action that it emits as a ToolUse
AtToolUse ==
    /\ pc = "scan"
    /\ AtTag
    /\ tool_end /= -1
    /\ tool_close_pos /= -1
    /\ AllParamsHaveValues(tool_params)

\* C36: every parameter name and value of an emitted ToolUse is taken from
\* text between that action's opening tag and its closing tag: no character
\* behind the closing tag contributes to its params, so that no span of the
\* buffer is reported by two blocks.
C36_ParamsInsideAction ==
    AtToolUse => ParamsWithin(assistant_message, tool_end + 1, tool_close_pos)

\* every iteration of the inner scan that does not stop moves param_start
\* strictly forward
RECURSIVE InnerScanAdvances(_, _, _)
InnerScanAdvances(msg, param_start, close_pos) ==
    LET step == ParamStep(msg, param_start, close_pos)
    IN  step.stop \/ (step.next > param_start
                          /\ InnerScanAdvances(msg, step.next, close_pos))

\* C40: parse terminates on every finite buffer: each iteration of the outer
\* scan either stops or moves the scan cursor strictly forward, the cursor
\* never passes the end of the buffer, and each iteration of the inner
\* parameter scan either stops or moves the parameter cursor strictly forward.
C40_ScansMoveForward ==
    /\ [](i <= n)
    /\ [][pc = "scan" => (pc' = "done" \/ i' > i)]_vars
    /\ []((pc = "scan" /\ AtTag /\ tool_end /= -1 /\ tool_close_pos /= -1) =>
             InnerScanAdvances(assistant_message, tool_end + 1, tool_close_pos))

\* a parse that took three iterations of the outer scan, one of them over an
\* action with two parameters, has returned
C40_Witness ==
    /\ pc = "done"
    /\ i = n
    /\ Len(content_blocks) = 3
    /\ \E k \in 1..3 : /\ content_blocks[k].type = "tool_use"
                        /\ Len(content_blocks[k].params) = 2

----------------------------------------------------------------------------
(* Registry claims *)

RegistryOps == {"add_tool", "update_tool", "remove_tool"}

RegistryUnchanged == UNCHANGED <<tools, EXTENDED_TOOLS, heap, tool_versions>>

\* C8 as stated: add_tool, update_tool and remove_tool on a basic tool name
\* each fail with the 'not an extended tool' error and leave the tool map, the
\* extended-tool table and the version logs as they were.
C8_BasicNameNotExtendedError ==
    [][(last'.op \in RegistryOps /\ last'.name \in BasicNames) =>
            /\ last'.error = "is not an extended tool"
            /\ RegistryUnchanged]_vars

\* C8 (amended): on a basic tool name update_tool and remove_tool fail with
\* the 'not an extended tool' error and add_tool fails with the 'already
\* exists' error; each leaves the tool map, the extended-tool table and the
\* version logs as they were.
C8_BasicToolsImmutable ==
    [][(last'.op \in RegistryOps /\ last'.name \in BasicNames) =>
            /\ last'.error = IF last'.op = "add_tool" THEN "already exists"
                             ELSE "is not an extended tool"
            /\ RegistryUnchanged]_vars

\* update_tool on read_file has failed while an extended tool is registered
C8_Witness ==
    /\ last = Call("update_tool", "main", "read_file", "is not an extended tool")
    /\ EXTENDED_TOOLS /= <<>>

\* this step is a successful add_tool or update_tool of manager m on name
\* with submission s
Versioned(m, name, s) ==
    /\ last'.error = "none"
    /\ last'.name = name
    /\ \/ last'.op = "add_tool" /\ add_tool(m, name, s.description, s.code)
       \/ last'.op = "update_tool" /\ update_tool(m, name, s.code, s.description)

\* C9: every successful add_tool or update_tool appends exactly one
\* ToolVersion to the log of its name, with version = prior length + 1 and
\* checksum = hash of the submitted code, and changes no other log; every log
\* carries the versions 1..n in order and only grows until its tool is removed.
C9_VersionLogAppendOnly ==
    /\ [](\A m \in DOMAIN tool_versions : \A name \in DOMAIN tool_versions[m] :
            \A k \in DOMAIN tool_versions[m][name] :
                tool_versions[m][name][k].version = Str(k))
    /\ [][\A m \in DOMAIN tools, name \in OpNames, s \in Submissions :
            Versioned(m, name, s) =>
                LET old == VersionsOf(tool_versions[m], name)
                    new == tool_versions'[m][name]
                IN  /\ Len(new) = Len(old) + 1
                    /\ IsPrefix(old, new)
                    /\ new[Len(new)].version = Str(Len(old) + 1)
                    /\ new[Len(new)].checksum = Md5(s.code)
                    /\ \A m2 \in DOMAIN tool_versions :
                          /\ DOMAIN tool_versions'[m2] \ {name} =
                                DOMAIN tool_versions[m2] \ {name}
                          /\ \A k \in DOMAIN tool_versions[m2] :
                                (m2 /= m \/ k /= name) =>
                                    tool_versions'[m2][k] = tool_versions[m2][k]]_vars
    /\ [][\A m \in DOMAIN tool_versions : \A name \in DOMAIN tool_versions[m] :
            IF name \in DOMAIN tool_versions'[m]
            THEN IsPrefix(tool_versions[m][name], tool_versions'[m][name])
            ELSE last' = Call("remove_tool", m, name, "none")]_vars

\* a log of two versions, written by an add and an update with different code
C9_Witness ==
    \E m \in DOMAIN tool_versions : \E name \in DOMAIN tool_versions[m] :
        /\ Len(tool_versions[m][name]) = 2
        /\ tool_versions[m][name][1].checksum /= tool_versions[m][name][2].checksum
        /\ last = Call("update_tool", m, name, "none")

\* C10: every add_tool, update_tool or remove_tool call that fails leaves the
\* tool map, the extended-tool table and every version log as they were.
C10_FailedCallChangesNothing ==
    [][(last'.op \in RegistryOps /\ last'.error /= "none") => RegistryUnchanged]_vars

\* an update with denylisted code has failed on a registered extended tool
C10_Witness ==
    /\ last = Call("update_tool", "main", "tool_a", "Tool code cannot use subprocess")
    /\ "tool_a" \in DOMAIN EXTENDED_TOOLS
    /\ \E m \in DOMAIN tool_versions : "tool_a" \in DOMAIN tool_versions[m]

\* C11: add_tool(name, ...) followed by any number of successful update_tool
\* calls on that name and then remove_tool(name) leaves the tool count and the
\* version-log count at the values they had before the add, the name out of
\* get_all_tools, and get_tool_versions(name) empty.
C11_AddUpdateRemoveRoundTrip ==
    chain.state = "closed" =>
        /\ last = Call("remove_tool", chain.m, chain.name, "none")
        /\ Cardinality(DOMAIN tools[chain.m]) = chain.tool_count
        /\ Cardinality(DOMAIN tool_versions[chain.m]) = chain.version_count
        /\ chain.name \notin DOMAIN tools[chain.m]
        /\ VersionsOf(tool_versions[chain.m], chain.name) = <<>>

\* remove_tool has returned after an add_tool and one update_tool on the name
C11_Witness ==
    /\ chain.state = "closed"
    /\ chain.updates = 1
    /\ last.error = "none"

\* C34: after any sequence of add_tool, update_tool and remove_tool calls,
\* successful or failing, every basic tool seeded at construction is still
\* returned by get_all_tools, with editable = false and its seeded
\* description.
C34_BasicToolsStaySeeded ==
    \A m \in DOMAIN tools : \A name \in BasicNames :
        /\ name \in DOMAIN tools[m]
        /\ tools[m][name] = BasicTool(BasicDescriptions[name])

\* two add_tool or update_tool calls have succeeded, every extended tool
\* has been removed again, a second manager exists and the last call was a
\* failed add_tool on a basic name
C34_Witness ==
    /\ now >= 2
    /\ EXTENDED_TOOLS = <<>>
    /\ DOMAIN tools = Managers
    /\ last = Call("add_tool", "second", "read_file", "already exists")

\* the names on which manager m accepts remove_tool, and with it update_tool
\* (same checks, lines 97/104 and 112/115)
Accepted(m) ==
    {name \in DOMAIN tools[m] \cup DOMAIN EXTENDED_TOOLS :
        ENABLED (remove_tool(m, name) /\ last'.error = "none")}

\* the editable tools get_all_tools of manager m returns
Editable(m) ==
    {name \in DOMAIN tools[m] :
        IF tools[m][name].kind = "basic" THEN tools[m][name].editable
        ELSE heap[tools[m][name].ref].editable}

\* C37: with several ToolManager instances in one process, in every
\* reachable state and for every instance the names on which the instance
\* accepts update_tool/remove_tool are the editable tools it returns from
\* get_all_tools (so that no operation on one instance leaves a tool of
\* another instance that can be neither added, updated nor removed), and no
\* operation fails with an error that is not a registry error.
C37_InstancesIndependent ==
    /\ \A m \in DOMAIN tools : Accepted(m) = Editable(m)
    /\ last.error /= "KeyError"

----------------------------------------------------------------------------
(* Orchestrator claims *)

\* the for loop stands at a tool use whose name is not registered
AtUnknownToolUse ==
    /\ main_pc = "dispatch"
    /\ use_index <= Len(tool_uses)
    /\ tool_uses[use_index] \notin DOMAIN tools["main"]

\* C12: looking up a name that is not registered yields a 'tool not found'
\* outcome, and the loop that dispatches the tool uses of a response reports
\* the unknown tool and goes on with the next tool use and the next turn; an
\* unknown tool name never terminates the loop.
C12_UnknownToolNeverEndsLoop ==
    /\ [](\A name \in UseNames :
            name \notin DOMAIN tools["main"] =>
                get_tool("main", name).error = "not found")
    /\ [][AtUnknownToolUse =>
            /\ main_pc' = "dispatch"
            /\ use_index' = use_index + 1
            /\ console' = Panel("Tool Warning", tool_uses[use_index])]_vars

----------------------------------------------------------------------------
(* Session claims *)

\* the reader is not in the middle of a chunk
BetweenChunks == reader_pc \in {"next", "raised", "done"}

\* the newline-terminated lines of text s, without their line ends
RECURSIVE LinesOf(_)
LinesOf(s) ==
    LET k == Find(s, <<"\n">>, 0)
    IN  IF k = -1 THEN <<>>
        ELSE <<RStrip(Slice(s, 0, k), {"\r"})>> \o LinesOf(SliceFrom(s, k + 1))

IsLine(e) == e.type = "LINE"

\* the payloads of the LINE events, in the order of their emission
LinePayloads ==
    LET line_events == SelectSeq(events, IsLine)
    IN  [k \in DOMAIN line_events |-> line_events[k].data]

\* C13: each newline-terminated line of the cleaned output produces exactly
\* one LINE event carrying that line, and the LINE events occur in the order of
\* the lines in the output; no line is dropped, duplicated or reordered.
C13_EveryLineOneLineEvent ==
    BetweenChunks => LinePayloads = LinesOf(output_buffer)

RECURSIVE Concat(_)
Concat(ss) == IF ss = <<>> THEN <<>> ELSE Head(ss) \o Concat(Tail(ss))

\* the slices the drain calls have taken
Slices == [k \in DOMAIN drained |-> drained[k].slice]

\* the part of its slice a drain call has not returned
Dropped(d) == SliceFrom(d.slice, Len(d.returned))

\* every byte up to the read cursor lies in the slice of exactly one drain call
SlicesPartitionBuffer ==
    caller_pc = "idle" =>
        Concat(Slices) = Slice(output_buffer, 0, last_retrieved_index)

\* a drain call has just returned: it took everything behind the old cursor
\* and left the cursor at the end of the buffer
DrainTakesTheRest ==
    drained' /= drained =>
        /\ drained'[Len(drained')].slice =
              SliceFrom(output_buffer, last_retrieved_index)
        /\ last_retrieved_index' = Len(output_buffer')

\* C14 as stated: each drain call returns only output appended since the
\* previous call and moves the read cursor to the end of the buffer, so every
\* byte of buffered output is returned by exactly one drain call, apart from a
\* trailing prompt artifact (one of % $ # > and the whitespace behind it).
C14_EveryByteReturnedOnce ==
    /\ [](/\ SlicesPartitionBuffer
          /\ \A k \in DOMAIN drained :
                /\ IsPrefix(drained[k].returned, drained[k].slice)
                /\ LET rest == Dropped(drained[k])
                   IN  rest /= <<>> =>
                          /\ rest[1] \in PromptChars
                          /\ \A j \in 2..Len(rest) : rest[j] \in Whitespace)
    /\ [][DrainTakesTheRest]_vars

\* C14 (amended): each drain call takes exactly the output appended since the
\* previous call and moves the read cursor to the end of the buffer, so every
\* byte of buffered output lies in the slice of exactly one drain call; the
\* call returns its slice without the trailing whitespace (line ends
\* included) and without one prompt character % $ # > in front of it.
C14_EveryByteDrainedOnce ==
    /\ [](/\ SlicesPartitionBuffer
          /\ \A k \in DOMAIN drained :
                /\ IsPrefix(drained[k].returned, drained[k].slice)
                /\ LET rest == Dropped(drained[k])
                   IN  rest /= <<>> =>
                          /\ rest[1] \in PromptChars \cup Whitespace
                          /\ \A j \in 2..Len(rest) : rest[j] \in Whitespace)
    /\ [][DrainTakesTheRest]_vars

\* two drain calls have returned, the first before and the second after the
\* reader appended a chunk, and the second dropped only a line end
C14_Witness ==
    /\ Len(drained) = 2
    /\ drained[1].slice = <<>>
    /\ drained[2].slice /= <<>>
    /\ Dropped(drained[2]) = <<"\n">>
    /\ last_retrieved_index = Len(output_buffer)

\* the subprocess has been started and has not exited
Alive == {"running", "blocked"}

\* this step is the firing of a pending hot timer
TimerFired == \E h \in scheduled : scheduled' = scheduled \ {h}

\* this step is the reader thread ending after the end of the stream
ReaderEnded == reader_pc /= "done" /\ reader_pc' = "done"

C16_EveryChunkRearmsTimer ==
    /\ [](/\ Cardinality(scheduled) <= 1
          /\ (BetweenChunks /\ nread > 0) => hot_timer.by = nread)
    /\ [][(process = "None" /\ process' = "running") =>
              (is_hot' /\ hot_timer' \in scheduled')]_vars
    /\ [][(process' \in Alive /\ is_hot /\ ~is_hot') => TimerFired]_vars

\* C17: on every chunk, the timeout that is armed is the long one exactly
\* when the chunk contains, case-insensitively, a compiling marker and no
\* terminating keyword, and the short one otherwise.
C17_TimeoutFollowsChunk ==
    (BetweenChunks /\ nread > 0) =>
        hot_timer.timeout =
            IF /\ \E marker \in compiling_markers : Contains(Lower(data), marker)
               /\ \A nullifier \in marker_nullifiers :
                     ~Contains(Lower(data), nullifier)
            THEN PROCESS_HOT_TIMEOUT_COMPILING
            ELSE PROCESS_HOT_TIMEOUT_NORMAL

\* this step is the reader finishing the chunk it processed
ChunkProcessed == reader_pc = "emit" /\ reader_pc' /= "emit"

\* C38: whenever a hot timer is pending for a session whose subprocess is
\* still running, is_hot is true; a chunk that arrives after is_hot has
\* flipped to false makes the session hot again for a newly armed timeout, so
\* a running session is hot, with a timer pending, once a chunk of its output
\* has been processed.
C38_PendingTimerMeansHot ==
    /\ []((hot_timer \in scheduled /\ process \in Alive) => is_hot)
    /\ [][(ChunkProcessed /\ process' \in Alive) =>
              (is_hot' /\ hot_timer' \in scheduled')]_vars

\* the read-modify-write sections of the reader thread (the with block of
\* line 129, and get_unretrieved_output called by a handler) and of callers
\* of get_unretrieved_output
InReaderSection == reader_pc \in {"append", "emit", "handler"}

InCallerSection == caller_pc \in {"slice", "advance"}

\* C20: the output buffer and the read cursor of a session are written only by
\* that session's reader and by get_unretrieved_output, and these two never
\* run their read-modify-write sections at the same time: each holds the
\* session lock for the whole section.
C20_BufferAndCursorUnderLock ==
    /\ [](/\ ~(InReaderSection /\ InCallerSection)
          /\ InReaderSection <=> lock = "reader"
          /\ InCallerSection <=> lock = "caller")
    /\ [][(output_buffer' /= output_buffer
              \/ last_retrieved_index' /= last_retrieved_index) =>
            \/ InReaderSection /\ reader_pc' /= reader_pc /\ caller_pc' = caller_pc
            \/ InCallerSection /\ caller_pc' /= caller_pc /\ reader_pc' = reader_pc]_vars

\* the reader, with a chunk in hand, waits for the lock while a drain call is
\* between reading the buffer and moving the cursor
C20_Witness ==
    /\ reader_pc = "acquire"
    /\ caller_pc = "advance"
    /\ lock = "caller"

\* what is left of an escape or shell-integration sequence in text s: its
\* introducer, its terminator, or the payload of ESC ] 633 ; ... BEL
SequenceRemains(s) ==
    \/ ESC \in Range(s)
    \/ BEL \in Range(s)
    \/ Find(s, <<"6", "3", "3", ";">>, 0) /= -1

\* C21: the output buffer and every LINE payload are free of ANSI/VT100
\* escape sequences and of shell-integration sequences ESC ] 633 ; ... BEL,
\* each removed whole with its payload.
C21_BufferFreeOfSequences ==
    /\ ~SequenceRemains(output_buffer)
    /\ \A k \in 1..Len(events) :
          events[k].type = "LINE" => ~SequenceRemains(events[k].payload)

\* C30: for a session whose subprocess closes its output, the reader raises
\* nothing, and once it has ended COMPLETED was emitted exactly once,
\* directly followed by CONTINUE, with every LINE event before it and none
\* after it.
C30_CompletedOnceAfterEveryLine ==
    /\ reader_pc /= "raised"
    /\ \A j, k \in 1..Len(events) :
          (events[j].type = "COMPLETED" /\ events[k].type = "LINE") => k < j
    /\ reader_pc = "done" =>
          \E k \in 1..(Len(events) - 1) :
              /\ events[k].type = "COMPLETED"
              /\ events[k + 1].type = "CONTINUE"
              /\ \A j \in 1..Len(events) : events[j].type = "COMPLETED" => j = k

\* C31: output that the subprocess writes to stderr is tracked like stdout:
\* every chunk written to stderr is eventually consumed by the manager, and
\* a subprocess blocked in a write to a full stderr pipe does not stay
\* blocked forever.
C31_StderrEventuallyConsumed ==
    /\ (stderr > 0) ~> (stderr = 0)
    /\ (process = "blocked") ~> (process /= "blocked")

\* a step of the thread that holds the lock
HolderStep ==
    \/ lock = "reader" /\ (ReaderAppends \/ ReaderEmits \/ HandlerReturns)
    \/ lock = "caller" /\ (CallerSlices \/ CallerReturns)

\* the reader thread is at a with self._lock
ReaderWaits == reader_pc \in {"acquire", "handler acquire"}

----------------------------------------------------------------------------
(* Manager claims *)

\* C18: across any sequence of create_terminal and run_command calls,
\* interleaved with remove_terminal and dispose_all, every assigned session id
\* is strictly greater than every id assigned before it, so no id is ever
\* handed out twice.
C18_IdsStrictlyIncrease ==
    /\ \A j, k \in DOMAIN issued : j < k => issued[j].id < issued[k].id
    /\ \A id \in DOMAIN terminals \cup DOMAIN processes : id < next_id

\* an id was handed out after an earlier id had been disposed
C18_Witness ==
    /\ Len(issued) = 2
    /\ issued[2].after = 1
    /\ issued[2].id \in DOMAIN terminals \cup DOMAIN processes

\* the subprocess of session id has ended, or has been sent a SIGTERM that it
\* does not ignore
StoppedOrStopping(id) ==
    \/ subprocs[id].state /= "running"
    \/ subprocs[id].sigterm /\ subprocs[id].command /= "ignores SIGTERM"

\* C19: disposing sessions (dispose_all, remove_terminal) is idempotent and
\* leaves no orphan: after the first call no subprocess of a disposed session
\* is still running (one that does not stop on the graceful signal is killed
\* after a grace period) and the session is no longer tracked; a repeated call
\* raises no error and changes nothing further.
C19_DisposeLeavesNoOrphan ==
    /\ [](\A id \in disposed :
            /\ id \notin DOMAIN terminals \cup DOMAIN processes
            /\ id \in DOMAIN subprocs => StoppedOrStopping(id))
    /\ [][/\ \A id \in disposed : remove_terminal(id) => UNCHANGED manager_vars
          /\ (processes = <<>> /\ dispose_all) => UNCHANGED manager_vars]_vars

\* the sessions of _terminals that step removes while the subprocess of their
\* process is still running
RemovedWhileRunning ==
    {id \in DOMAIN terminals \ DOMAIN terminals' :
        /\ terminals[id].process /= <<>>
        /\ subprocs[terminals[id].process[1]].state = "running"}

\* a call of get_terminal, update_terminal or get_all_terminals
Lookup ==
    \/ get_all_terminals
    \/ \E terminal_id \in 0..(MaxIds - 1) :
          \/ get_terminal(terminal_id)
          \/ \E p \in DOMAIN subprocs : update_terminal(terminal_id, p)

\* C29: get_terminal, update_terminal and get_all_terminals never remove a
\* session whose subprocess is still running: in no state can one of them
\* take a step that removes such a session.
C29_LookupsKeepRunningSessions ==
    ~ENABLED (Lookup /\ RemovedWhileRunning /= {})

\* C32: when the subprocess cannot be spawned, run_command fails and leaves
\* the manager as it was before the call: no entry for the failed session
\* stays registered, and the failed session is not hot (no reader thread and
\* no hot timer were started for it).
C32_FailedSpawnLeavesNoEntry ==
    [][\A command \in Commands :
          run_command(command, FALSE) =>
              /\ UNCHANGED <<terminals, processes>>
              /\ ~subprocs'[next_id].is_hot]_vars

----------------------------------------------------------------------------
(* Diff engine claims *)

\* the last call that changed the session was update(C, TRUE) followed by
\* save_changes, on a session that open had opened
SavedFinal ==
    /\ returned.op = "save_changes"
    /\ diff_session.opened
    /\ diff_session.first_close = "save_changes"
    /\ diff_session.closed = "save_changes"
    /\ diff_session.last.set
    /\ diff_session.last.value.is_final

\* C22: after updates whose last one carries content C with is_final true,
\* save_changes leaves the target file with content C and returns
\* final_content = C, for every C, the empty string included.
C22_SaveWritesFinalContent ==
    SavedFinal =>
        /\ diff_session.target \in DOMAIN fs.files
        /\ fs.files[diff_session.target] = diff_session.last.value.content
        /\ returned.final_content =
               [set |-> TRUE, value |-> diff_session.last.value.content]

\* revert_changes was called after open and updates only
RevertedDirectly ==
    /\ returned.op = "revert_changes"
    /\ diff_session.opens > 0
    /\ diff_session.first_close /= "save_changes"
    /\ diff_session.closed /= "save_changes"

\* C23: for a target that does not exist before open, open, any updates and
\* then revert_changes leave the filesystem as it was before open: no
\* placeholder, no created directory left, no other directory removed.
C23_CreateThenRevertRestores ==
    (RevertedDirectly /\ ~Exists(diff_session.before, diff_session.target))
        => fs = diff_session.before

\* a session that created a directory was reverted after an update
C23_Witness ==
    /\ RevertedDirectly
    /\ returned.raised = "none"
    /\ diff_session.opened
    /\ diff_session.updates > 0
    /\ ~Exists(diff_session.before, diff_session.target)
    /\ ~Exists(diff_session.before, Parent(diff_session.target))
    /\ fs = diff_session.before

\* C24: for a target that exists before open, open records the content of
\* the file as original content and leaves the file as it is, and open, any
\* updates and then revert_changes leave the file and the directories as
\* they were.
C24_OpenKeepsExistingFile ==
    LET target == diff_session.target
        before == diff_session.before
    IN  /\ (returned.op = "open" /\ target \in DOMAIN before.files) =>
               /\ provider.original_content =
                      [set |-> TRUE, value |-> before.files[target]]
               /\ fs = before
        /\ (RevertedDirectly /\ target \in DOMAIN before.files) => fs = before

\* C25: when the final content has a comment line with omission vocabulary
\* that is no line of the original content, the final update and
\* save_changes print the truncation warning and the content is written.
C25_OmissionWarnsAndSaves ==
    LET final_content == diff_session.last.value.content
        original_content == provider.original_content.value
    IN  (SavedFinal /\ detect_code_omission(original_content, final_content)) =>
            /\ diff_session.printed =
                   log_omission_warning(original_content, final_content)
            /\ returned.raised = "none"
            /\ fs.files[diff_session.target] = final_content

\* C26: once save_changes or revert_changes has completed, and until the
\* next open, no call writes or deletes a file or a directory.
C26_NoWriteAfterClose ==
    [][(diff_session.closed /= "none" /\ diff_session'.opens = diff_session.opens)
           => fs' = fs]_vars

\* the ancestor directories of path below cwd
Ancestors(path) == {SubSeq(path, 1, k) : k \in 1..(Len(path) - 1)}

\* C27: open on a target that does not exist creates every missing ancestor
\* directory, for any number of missing levels, then the empty placeholder,
\* and created_dirs lists exactly the directories that were missing.
C27_OpenCreatesMissingAncestors ==
    LET target == diff_session.target
        before == diff_session.before
    IN  (returned.op = "open" /\ ~Exists(before, target)) =>
            /\ returned.raised = "none"
            /\ fs.dirs = before.dirs \cup Ancestors(target)
            /\ fs.files = With(before.files, target, <<>>)
            /\ Range(provider.created_dirs) = Ancestors(target) \ before.dirs
            /\ Len(provider.created_dirs) =
                   Cardinality(Ancestors(target) \ before.dirs)

\* lines joined by "\n"
RECURSIVE JoinLines(_)
JoinLines(lines) ==
    IF Len(lines) = 0 THEN <<>>
    ELSE IF Len(lines) = 1 THEN lines[1]
    ELSE lines[1] \o <<"\n">> \o JoinLines(Tail(lines))

\* text up to its last "\n", that newline left out
BeforeLastNewline(text) ==
    LET at == {k \in 1..Len(text) : text[k] = "\n"}
    IN  IF at = {} THEN <<>> ELSE SubSeq(text, 1, Max(at) - 1)

\* C28: after update(content, is_final) streamed_lines are the lines of
\* content, without the last one when is_final is false; while every update
\* extends the one before, the lines made active are the indices of
\* streamed_lines, each once and in increasing order, so the incomplete last
\* line is not made active before it is completed or the final update.
C28_LinesSurfacedOnceInOrder ==
    LET call == diff_session.last.value
        streamed_lines == provider.streamed_lines
    IN  /\ (returned.op = "update" /\ returned.raised = "none") =>
               /\ \A k \in 1..Len(streamed_lines) : "\n" \notin Range(streamed_lines[k])
               /\ call.is_final =>
                      /\ JoinLines(streamed_lines) = call.content
                      /\ Len(streamed_lines) > 0
               /\ ~call.is_final =>
                      /\ JoinLines(streamed_lines) = BeforeLastNewline(call.content)
                      /\ Len(streamed_lines) =
                             Cardinality({k \in 1..Len(call.content) :
                                             call.content[k] = "\n"})
        /\ (/\ diff_session.opened
            /\ diff_session.closed = "none"
            /\ diff_session.streaming) =>
               diff_session.surfaced = [k \in 1..Len(streamed_lines) |-> k - 1]

\* three updates streamed two lines and the final one
C28_Witness ==
    /\ diff_session.opened
    /\ diff_session.closed = "none"
    /\ diff_session.streaming
    /\ diff_session.updates = 3
    /\ diff_session.last.set
    /\ diff_session.last.value.is_final
    /\ diff_session.surfaced = <<0, 1>>

====
